---- MODULE Spec2Model ----
(***************************************************************************)
(* Money-manager backend: the income / expense / transfer handlers and the *)
(* account balances they adjust (routes/income, routes/expense), the       *)
(* password-reset handlers (routes/auth.js), the merged transaction feed   *)
(* (routes/transactions.js) and the reads of the dashboard, income and     *)
(* expense routes: filtered listings, summaries and trends.                *)
(*                                                                         *)
(* Time is counted in minutes.  Amounts are integers.                      *)
(***************************************************************************)
EXTENDS Integers, Sequences, FiniteSets, TLC

VARIABLES
    now,        \* Date.now(), in minutes
    incomes,    \* the Income collection: a set of documents
    expenses,   \* the Expense collection: a set of documents
    balance,    \* the Account collection: <<email, accountName>> -> balance
    nextId,     \* the next _id the store assigns
    last,       \* the last request handled and its response
    resetCodes, \* auth.js resetCodes: email -> {code, expiresAt}
    password,   \* the User collection: email -> stored password hash
    verified,   \* history: emails whose current reset code has been verified
    incomeTransactions,   \* GET /transactions: the incomes matching incomeQuery
    expenseTransactions,  \* GET /transactions: the expenses matching expenseQuery
    query,      \* GET /transactions: type, sortBy, limit and period of the request
    answer,     \* GET /transactions: the body of the answer
    incomeStore,  \* the Income collection as the reports read it, in natural order
    expenseStore, \* the Expense collection as the reports read it, in natural order
    today,      \* new Date() of a report: year, month, day, minute of the day
    requests    \* the requests being handled at once: each one's position and locals

ledgerVars == <<incomes, expenses, balance, nextId>>
authVars == <<resetCodes, password, verified>>
feedVars == <<incomeTransactions, expenseTransactions, query, answer>>
readVars == <<incomeStore, expenseStore, today>>
raceVars == <<requests>>

vars == <<now, incomes, expenses, balance, nextId, last, resetCodes, password, verified,
          incomeTransactions, expenseTransactions, query, answer,
          incomeStore, expenseStore, today, requests>>

-----------------------------------------------------------------------------
(* Bounds of the model *)

MaxClock == 721         \* the clock stops here: 12 h 01 min after the start
MaxIds == 1             \* documents ever created per behaviour
InitialBalance == 1     \* balance of every account at the start
MaxResetClock == 21     \* the clock of the password-reset behaviours stops here
MaxFeed == 2            \* documents the two queries of a feed request return
MaxSummary == 2         \* documents in the store a summary reads
MaxPool == 5            \* entries in the pool the filtered reads draw their stores from
MaxDash == 6            \* entries of the owner in each collection the dashboard reads

(* Program constants *)

EditWindowMinutes == 720    \* 12 * 60 * 60 * 1000 ms
RecentPerCollection == 5    \* .limit(5) of the recent incomes and of the recent expenses
RecentLimit == 10           \* .slice(0, 10) of the merged recent transactions
DashboardTrendMonths == 6   \* getMonthlyTrend(email, 6)
DefaultTrendMonths == 12    \* months = 12
WeeklyTrendWeeks == 8       \* getWeeklyTrend(email, 8)
YearlyTrendYears == 5       \* getYearlyTrend(email, 5)
ResetCodeMinutes == 10      \* 10 * 60 * 1000 ms

-----------------------------------------------------------------------------
(* Values *)

Null == "null"                  \* undefined / null / absent field
Emails == {"u1", "u2"}
Users == {"u1"}                 \* the registered users
AccountNames == {"Cash", "Bank"}
\* The accounts that exist.  No handler creates or removes an account.
ExistingAccounts == {<<"u1", "Cash">>, <<"u1", "Bank">>}
ClockSteps == {EditWindowMinutes - 1, EditWindowMinutes, EditWindowMinutes + 1}
ValidAmounts == {1, 2}
InvalidAmounts == {-1, 0}            \* 0 stands for every falsy amount
UpdateAmounts == {-1, 2}            \* amount of a PUT body, when it has one
Ids == 1..MaxIds

\* Which account update of the request threw: 0 for none.
FaultNo(fault) == IF fault THEN 1 ELSE 0

\* The clients whose requests may be in progress at the same time, and a
\* client with no request in progress.
Clients == {"c1", "c2"}

Idle ==
    [op |-> "none", pc |-> "idle", type |-> Null, id |-> 0, email |-> Null,
     amount |-> 0, account |-> Null, doc |-> <<>>, body |-> <<>>, status |-> 0,
     result |-> <<>>]

\* The request just handled and its answer: the operation, the HTTP status,
\* the _id it named or created, the source and destination accounts of a
\* transfer and the account update that threw.
Response(op, status, id, account, toAccount, fault) ==
    [op |-> op, status |-> status, id |-> id, account |-> account,
     toAccount |-> toAccount, fault |-> fault]

-----------------------------------------------------------------------------
(* Store primitives *)

\* Model.findById(id)
Found(coll, id) == \E e \in coll : e.id = id

FindById(coll, id) == CHOOSE e \in coll : e.id = id

\* Account.findOneAndUpdate({email, accountName}, {$inc: {balance: delta}})
\* without upsert: no matching account, no change.
FindOneAndUpdateIncWrongSign(bal, email, name, delta) ==
    IF <<email, name>> \in DOMAIN bal
    THEN [bal EXCEPT ![<<email, name>>] = @ - delta]
    ELSE bal

FindOneAndUpdateInc(bal, email, name, delta) ==
    IF <<email, name>> \in DOMAIN bal
    THEN [bal EXCEPT ![<<email, name>>] = @ + delta]
    ELSE bal

\* const twelveHoursAgo = new Date(Date.now() - 12 * 60 * 60 * 1000)
twelveHoursAgo == now - EditWindowMinutes

\* if (income.createdAt < twelveHoursAgo) return res.status(403)
EditWindowExpiredInclusive(doc) == doc.createdAt <= twelveHoursAgo

EditWindowExpiredReversed(doc) == doc.createdAt > twelveHoursAgo

EditWindowExpired(doc) == doc.createdAt < twelveHoursAgo

\* canEditTransaction(createdAt) of the transactions feed; createdAt is <<>>
\* when the document has none, else <<t>>.
canEditTransaction(createdAt) ==
    IF createdAt = <<>> THEN FALSE
    ELSE createdAt[1] > twelveHoursAgo

\* IncomeSchema.methods.canEdit and ExpenseSchema.methods.canEdit
canEdit(doc) == doc.createdAt > twelveHoursAgo

\* The schema validators: amount has min 0.
AmountAlwaysValid(amount) == TRUE

AmountValid(amount) == amount >= 0

\* The document a POST stores.  Two fields are history, not stored fields:
\* `updated` (a PUT has rewritten the document) and `credited` (the request
\* that created it changed an account balance).
NewEntry(id, email, amount, account, isTransfer, credited) ==
    [id |-> id, email |-> email, amount |-> amount, account |-> account,
     createdAt |-> now, isTransfer |-> isTransfer, updated |-> FALSE,
     credited |-> credited]

\* account: account || "Cash"
StoredAccount(account) == IF account = Null THEN "Cash" ELSE account

-----------------------------------------------------------------------------
(* The account adjustment of an insert: if (account) { try { $inc } catch {} } *)

InsertAdjustAlways(bal, email, account, delta, fault) ==
    IF fault
    THEN bal
    ELSE FindOneAndUpdateInc(bal, email, StoredAccount(account), delta)

InsertAdjust(bal, email, account, delta, fault) ==
    IF account = Null \/ fault
    THEN bal
    ELSE FindOneAndUpdateInc(bal, email, account, delta)

-----------------------------------------------------------------------------
(* routes/income: POST /add, PUT /:id, DELETE /:id *)

\* router.post("/add").  `missing`: one of email, source, date, time,
\* paymentMethod is absent.  `fault`: Account.findOneAndUpdate throws.
PostIncomeAdd(email, amount, account, missing, fault) ==
    /\ IF missing \/ amount = 0
       THEN /\ ~fault
            /\ last' = Response("postIncome", 400, 0, Null, Null, 0)
            /\ UNCHANGED <<incomes, balance, nextId>>
       ELSE IF ~AmountValid(amount)
       THEN \* newIncome.save() rejects: outer catch
            /\ ~fault
            /\ last' = Response("postIncome", 500, 0, Null, Null, 0)
            /\ UNCHANGED <<incomes, balance, nextId>>
       ELSE /\ nextId <= MaxIds
            /\ fault => account # Null
            /\ incomes' = incomes \cup
                  {NewEntry(nextId, email, amount, StoredAccount(account), FALSE,
                            InsertAdjust(balance, email, account, amount, fault) # balance)}
            /\ balance' = InsertAdjust(balance, email, account, amount, fault)
            /\ nextId' = nextId + 1
            /\ last' = Response("postIncome", 201, nextId, Null, Null, FaultNo(fault))
    /\ UNCHANGED <<now, expenses, authVars, feedVars, readVars, raceVars>>

\* AddIncome.findByIdAndUpdate(id, updateData, {new: true, runValidators: true})
\* No handler adjusts an account on update.
ApplyUpdateRestamps(doc, body) ==
    [doc EXCEPT !.amount = IF body.hasAmount THEN body.amount ELSE @,
                !.account = IF body.account = Null THEN @ ELSE body.account,
                !.createdAt = IF body.createdAt = <<>> THEN @ ELSE body.createdAt[1],
                !.updated = TRUE]

\* timestamps: true: a createdAt in the update is dropped before the write.
ApplyUpdate(doc, body) ==
    [doc EXCEPT !.amount = IF body.hasAmount THEN body.amount ELSE @,
                !.account = IF body.account = Null THEN @ ELSE body.account,
                !.updated = TRUE]

\* runValidators: the validators of the paths the body sets.
UpdateValid(body) == body.hasAmount => AmountValid(body.amount)

\* The answer of PUT /:id and DELETE /:id before the write: 404 for an absent
\* document, 403 outside the edit window, else 200.
GuardStatusInclusive(coll, id) ==
    IF ~Found(coll, id) THEN 404
    ELSE IF EditWindowExpiredInclusive(FindById(coll, id)) THEN 403
    ELSE 200

GuardStatus(coll, id) ==
    IF ~Found(coll, id) THEN 404
    ELSE IF EditWindowExpired(FindById(coll, id)) THEN 403
    ELSE 200

\* router.put("/:id") (income)
PutIncome(id, body) ==
    LET income == FindById(incomes, id)
        guard == GuardStatus(incomes, id)
    IN /\ IF guard # 200
          THEN /\ last' = Response("putIncome", guard, id, Null, Null, 0)
               /\ UNCHANGED incomes
          ELSE IF ~UpdateValid(body)
          THEN \* update validators reject: outer catch
               /\ last' = Response("putIncome", 500, id, Null, Null, 0)
               /\ UNCHANGED incomes
          ELSE /\ incomes' = (incomes \ {income}) \cup {ApplyUpdate(income, body)}
               /\ last' = Response("putIncome", 200, id, Null, Null, 0)
       /\ UNCHANGED <<now, expenses, balance, nextId, authVars, feedVars, readVars, raceVars>>

\* The balance revert of a delete: if (doc.account) { try { $inc } catch {} }
DeleteAdjustNoRevert(bal, doc, delta, fault) == bal

DeleteAdjust(bal, doc, delta, fault) ==
    IF doc.account = Null \/ fault
    THEN bal
    ELSE FindOneAndUpdateInc(bal, doc.email, doc.account, delta)

\* router.delete("/:id") (income)
DeleteIncome(id, fault) ==
    LET income == FindById(incomes, id)
        guard == GuardStatus(incomes, id)
    IN /\ IF guard # 200
          THEN /\ ~fault
               /\ last' = Response("deleteIncome", guard, id, Null, Null, 0)
               /\ UNCHANGED <<incomes, balance>>
          ELSE /\ incomes' = incomes \ {income}
               /\ balance' = DeleteAdjust(balance, income, -income.amount, fault)
               /\ last' = Response("deleteIncome", 200, id, Null, Null, FaultNo(fault))
       /\ UNCHANGED <<now, expenses, nextId, authVars, feedVars, readVars, raceVars>>

-----------------------------------------------------------------------------
(* routes/expense: POST /minus, PUT /:id, DELETE /:id, POST /transfer *)

\* router.post("/minus")
PostExpenseMinus(email, amount, account, missing, fault) ==
    /\ IF missing \/ amount = 0
       THEN /\ ~fault
            /\ last' = Response("postExpense", 400, 0, Null, Null, 0)
            /\ UNCHANGED <<expenses, balance, nextId>>
       ELSE IF ~AmountValid(amount)
       THEN /\ ~fault
            /\ last' = Response("postExpense", 500, 0, Null, Null, 0)
            /\ UNCHANGED <<expenses, balance, nextId>>
       ELSE /\ nextId <= MaxIds
            /\ fault => account # Null
            /\ expenses' = expenses \cup
                  {NewEntry(nextId, email, amount, StoredAccount(account), FALSE,
                            InsertAdjust(balance, email, account, -amount, fault) # balance)}
            /\ balance' = InsertAdjust(balance, email, account, -amount, fault)
            /\ nextId' = nextId + 1
            /\ last' = Response("postExpense", 201, nextId, Null, Null, FaultNo(fault))
    /\ UNCHANGED <<now, incomes, authVars, feedVars, readVars, raceVars>>

\* router.put("/:id") (expense)
PutExpense(id, body) ==
    LET expense == FindById(expenses, id)
        guard == GuardStatus(expenses, id)
    IN /\ IF guard # 200
          THEN /\ last' = Response("putExpense", guard, id, Null, Null, 0)
               /\ UNCHANGED expenses
          ELSE IF ~UpdateValid(body)
          THEN /\ last' = Response("putExpense", 500, id, Null, Null, 0)
               /\ UNCHANGED expenses
          ELSE /\ expenses' = (expenses \ {expense}) \cup {ApplyUpdate(expense, body)}
               /\ last' = Response("putExpense", 200, id, Null, Null, 0)
       /\ UNCHANGED <<now, incomes, balance, nextId, authVars, feedVars, readVars, raceVars>>

\* router.delete("/:id") (expense)
DeleteExpenseUnguarded(id, fault) ==
    LET expense == FindById(expenses, id)
        guard == GuardStatus(expenses, id)
    IN /\ IF guard # 200
          THEN /\ ~fault
               /\ last' = Response("deleteExpense", guard, id, Null, Null, 0)
               /\ UNCHANGED <<expenses, balance>>
          ELSE /\ expenses' = expenses \ {expense}
               /\ balance' = DeleteAdjust(balance, expense, expense.amount, fault)
               /\ last' = Response("deleteExpense", IF fault THEN 500 ELSE 200, id, Null, Null, FaultNo(fault))
       /\ UNCHANGED <<now, incomes, nextId, authVars, feedVars, readVars, raceVars>>

DeleteExpense(id, fault) ==
    LET expense == FindById(expenses, id)
        guard == GuardStatus(expenses, id)
    IN /\ IF guard # 200
          THEN /\ ~fault
               /\ last' = Response("deleteExpense", guard, id, Null, Null, 0)
               /\ UNCHANGED <<expenses, balance>>
          ELSE /\ expenses' = expenses \ {expense}
               /\ balance' = DeleteAdjust(balance, expense, expense.amount, fault)
               /\ last' = Response("deleteExpense", 200, id, Null, Null, FaultNo(fault))
       /\ UNCHANGED <<now, incomes, nextId, authVars, feedVars, readVars, raceVars>>

\* The two account updates of a transfer, inside one try block: the source
\* is debited, then the destination credited.  failAt = 1: the first update
\* throws (the second is skipped); failAt = 2: the second throws; 0: neither.
TransferAdjustDebitOnly(bal, email, fromAccount, toAccount, amount, failAt) ==
    IF failAt = 1 THEN bal
    ELSE FindOneAndUpdateInc(bal, email, fromAccount, -amount)

TransferAdjust(bal, email, fromAccount, toAccount, amount, failAt) ==
    IF failAt = 1 THEN bal
    ELSE LET debited == FindOneAndUpdateInc(bal, email, fromAccount, -amount)
         IN IF failAt = 2 THEN debited
            ELSE FindOneAndUpdateInc(debited, email, toAccount, amount)

\* The record a transfer writes: one Expense on the source account.
TransferExpense(id, email, fromAccount, amount, credited) ==
    NewEntry(id, email, amount, fromAccount, TRUE, credited)

\* router.post("/transfer").  `missing`: email, fromAccount, toAccount or
\* date is absent.
PostExpenseTransfer(email, fromAccount, toAccount, amount, missing, failAt) ==
    /\ IF missing \/ amount = 0
       THEN /\ failAt = 0
            /\ last' = Response("transfer", 400, 0, Null, Null, 0)
            /\ UNCHANGED <<expenses, balance, nextId>>
       ELSE IF ~AmountValid(amount)
       THEN /\ failAt = 0
            /\ last' = Response("transfer", 500, 0, Null, Null, 0)
            /\ UNCHANGED <<expenses, balance, nextId>>
       ELSE /\ nextId <= MaxIds
            /\ expenses' = expenses \cup
                  {TransferExpense(nextId, email, fromAccount, amount,
                      TransferAdjust(balance, email, fromAccount, toAccount, amount, failAt) # balance)}
            /\ balance' = TransferAdjust(balance, email, fromAccount, toAccount, amount, failAt)
            /\ nextId' = nextId + 1
            /\ last' = Response("transfer", 201, nextId, fromAccount, toAccount, failAt)
    /\ UNCHANGED <<now, incomes, authVars, feedVars, readVars, raceVars>>

\* Time passes between requests.  Only the age of a stored document is ever
\* read, so the clock is left alone while nothing is stored.
Tick(d) ==
    /\ now + d <= MaxClock
    /\ incomes \cup expenses # {}
    /\ now' = now + d
    /\ last' = Response("tick", 0, 0, Null, Null, 0)
    /\ UNCHANGED <<incomes, expenses, balance, nextId, authVars, feedVars, readVars, raceVars>>

-----------------------------------------------------------------------------
(* routes/auth.js: POST /forgot-password, /verify-reset-code, /reset-password *)

\* bcrypt.hash(password, 10)
Hash(pw) == <<"bcrypt", pw>>

\* expiresAt: Date.now() + 10 * 60 * 1000
ExpiresAt == now + ResetCodeMinutes

Without(f, k) == [x \in DOMAIN f \ {k} |-> f[x]]

With(f, k, v) == [x \in DOMAIN f \cup {k} |-> IF x = k THEN v ELSE f[x]]

\* router.post("/forgot-password").  `mailFails`: transporter.sendMail throws,
\* after the code has been stored.
ForgotPassword(email, code, mailFails) ==
    /\ IF email \notin Users
       THEN /\ ~mailFails
            /\ last' = Response("forgotPassword", 400, 0, Null, Null, 0)
            /\ UNCHANGED <<resetCodes, verified>>
       ELSE /\ resetCodes' = With(resetCodes, email, [code |-> code, expiresAt |-> ExpiresAt])
            /\ verified' = verified \ {email}
            /\ last' = Response("forgotPassword", IF mailFails THEN 500 ELSE 200, 0, Null, Null, 0)
    /\ UNCHANGED <<now, ledgerVars, password, feedVars, readVars, raceVars>>

\* if (!resetCodes[email] || resetCodes[email].expiresAt < Date.now())
CodeUsable(codes, email) ==
    email \in DOMAIN codes /\ ~(codes[email].expiresAt < now)

\* router.post("/verify-reset-code")
VerifyResetCode(email, code) ==
    /\ IF ~CodeUsable(resetCodes, email) \/ resetCodes[email].code # code
       THEN /\ last' = Response("verifyResetCode", 400, 0, Null, Null, 0)
            /\ UNCHANGED verified
       ELSE /\ last' = Response("verifyResetCode", 200, 0, Null, Null, 0)
            /\ verified' = verified \cup {email}
    /\ UNCHANGED <<now, ledgerVars, resetCodes, password, feedVars, readVars, raceVars>>

\* The condition under which /reset-password writes the new password:
\* if (!email) ...; const user = await User.findOne({ email }); if (!user) ...
MayReset(email) == email \in Users

\* router.post("/reset-password")
ResetPassword(email, newPassword) ==
    /\ IF ~MayReset(email)
       THEN /\ last' = Response("resetPassword", 400, 0, Null, Null, 0)
            /\ UNCHANGED <<resetCodes, password, verified>>
       ELSE /\ password' = [password EXCEPT ![email] = Hash(newPassword)]
            /\ resetCodes' = Without(resetCodes, email)
            /\ verified' = verified \ {email}
            /\ last' = Response("resetPassword", 200, 0, Null, Null, 0)
    /\ UNCHANGED <<now, ledgerVars, feedVars, readVars, raceVars>>

\* Time passes between requests.
AuthTick(d) ==
    /\ now + d <= MaxResetClock
    /\ now' = now + d
    /\ last' = Response("tick", 0, 0, Null, Null, 0)
    /\ UNCHANGED <<ledgerVars, authVars, feedVars, readVars, raceVars>>

ResetCodes == {"123456", "654321"}
NewPasswords == {"p1", "p2"}
ResetClockSteps == {ResetCodeMinutes, ResetCodeMinutes + 1}

NextAuth ==
    \/ \E e \in Emails, c \in ResetCodes, m \in BOOLEAN : ForgotPassword(e, c, m)
    \/ \E e \in Emails, c \in ResetCodes : VerifyResetCode(e, c)
    \/ \E e \in Emails, p \in NewPasswords : ResetPassword(e, p)
    \/ \E d \in ResetClockSteps : AuthTick(d)

-----------------------------------------------------------------------------
(* routes/transactions.js: GET /:email, the merged feed *)

\* The documents matching incomeQuery and expenseQuery are drawn from these.
\* A date is the calendar day of the stored Date; a time is the stored text.
FeedMoments ==
    { [date |-> [y |-> 2023, m |-> 12, d |-> 29], time |-> "17:30"],
      [date |-> [y |-> 2024, m |-> 1, d |-> 5], time |-> "09:00"],
      [date |-> [y |-> 2024, m |-> 1, d |-> 5], time |-> "17:30"],
      [date |-> [y |-> 2024, m |-> 1, d |-> 20], time |-> "09:00"] }

FeedDocs == [amount : ValidAmounts, moment : FeedMoments]

SortKeys == {Null, "date_asc", "date_desc", "amount_asc", "amount_desc", "newest"}
Periods == {Null, "monthly", "weekly", "yearly", "daily"}
Types == {Null, "income", "expense"}

\* if (!type || type === 'both' || type === wanted) docs = await Model.find(q)
Fetch(docs, type, wanted) ==
    IF type = Null \/ type = "both" \/ type = wanted THEN docs ELSE <<>>

\* formattedIncome / formattedExpense: the documents with their type added.
\* id is the position of the document in the result of its find().
Format(docs, type) ==
    [i \in 1..Len(docs) |->
        [type |-> type, id |-> i, amount |-> docs[i].amount,
         date |-> docs[i].moment.date, time |-> docs[i].moment.time]]

\* `${a.date}T${a.time}` where a.date is a Date: the Date is converted with
\* Date.prototype.toString().
DateTimeText(t) ==
    [format |-> "Www Mmm DD YYYY HH:mm:ss GMT+hhmm (zone)", date |-> t.date,
     suffix |-> "T", time |-> t.time]

NaN == [nan |-> TRUE, v |-> 0]
Num(n) == [nan |-> FALSE, v |-> n]

Minutes(time) == IF time = "09:00" THEN 540 ELSE 1050

DayNumber(date) == (date.y * 12 + (date.m - 1)) * 31 + (date.d - 1)

\* new Date(text): the ISO form YYYY-MM-DDTHH:mm parses; in the legacy
\* parser a word after a number has been read makes the date invalid.
ParseDate(text) ==
    IF text.format = "YYYY-MM-DD"
    THEN Num(DayNumber(text.date) * 1440 + Minutes(text.time))
    ELSE NaN

\* a - b on numbers
Minus(a, b) == IF a.nan \/ b.nan THEN NaN ELSE Num(a.v - b.v)

\* The comparator of sortTransactions.
CompareAmountSwapped(a, b, sortBy) ==
    LET dateTimeA == ParseDate(DateTimeText(a))
        dateTimeB == ParseDate(DateTimeText(b))
    IN CASE sortBy = "date_asc" -> Minus(dateTimeA, dateTimeB)
         [] sortBy = "date_desc" -> Minus(dateTimeB, dateTimeA)
         [] sortBy = "amount_asc" -> Num(b.amount - a.amount)
         [] sortBy = "amount_desc" -> Num(a.amount - b.amount)
         [] OTHER -> Minus(dateTimeB, dateTimeA)

Compare(a, b, sortBy) ==
    LET dateTimeA == ParseDate(DateTimeText(a))
        dateTimeB == ParseDate(DateTimeText(b))
    IN CASE sortBy = "date_asc" -> Minus(dateTimeA, dateTimeB)
         [] sortBy = "date_desc" -> Minus(dateTimeB, dateTimeA)
         [] sortBy = "amount_asc" -> Num(a.amount - b.amount)
         [] sortBy = "amount_desc" -> Num(b.amount - a.amount)
         [] OTHER -> Minus(dateTimeB, dateTimeA)

\* Array.prototype.sort: a comparator result of NaN counts as 0, and the
\* sort is stable.  a goes after b when the comparator puts b first or ties.
GoesAfter(b, a, sortBy) ==
    LET c == Compare(b, a, sortBy)
    IN c.nan \/ c.v <= 0

RECURSIVE InsertStable(_, _, _)
InsertStable(sorted, x, sortBy) ==
    IF sorted = <<>> THEN <<x>>
    ELSE LET n == Len(sorted)
         IN IF GoesAfter(sorted[n], x, sortBy)
            THEN Append(sorted, x)
            ELSE Append(InsertStable(SubSeq(sorted, 1, n - 1), x, sortBy), sorted[n])

RECURSIVE SortFrom(_, _, _)
SortFrom(sorted, rest, sortBy) ==
    IF rest = <<>> THEN sorted
    ELSE SortFrom(InsertStable(sorted, Head(rest), sortBy), Tail(rest), sortBy)

\* function sortTransactions(transactions, sortBy); sortBy = 'date_desc'
\* when the query has none.
sortTransactions(transactions, sortBy) ==
    SortFrom(<<>>, transactions, IF sortBy = Null THEN "date_desc" ELSE sortBy)

\* if (limit) allTransactions = allTransactions.slice(0, parseInt(limit));
\* limit is <<>> when the query has none, <<n>> for the text of n.
ApplyLimit(transactions, limit) ==
    IF limit = <<>> THEN transactions
    ELSE SubSeq(transactions, 1, IF limit[1] < Len(transactions) THEN limit[1] ELSE Len(transactions))

\* items.reduce((sum, item) => sum + item.amount, 0)
RECURSIVE SumAmount(_)
SumAmount(items) ==
    IF items = <<>> THEN 0 ELSE items[1].amount + SumAmount(Tail(items))

\* Characters of a period label, as code points.
Digit(n) == 48 + n
Hyphen == <<45>>
LetterW == <<87>>
PadStart2(n) == <<Digit(n \div 10), Digit(n % 10)>>
Year4(y) == <<Digit(y \div 1000), Digit((y \div 100) % 10), Digit((y \div 10) % 10), Digit(y % 10)>>

\* The switch(period) of groupTransactionsByPeriod.
PeriodKey(date, period) ==
    CASE period = "monthly" -> Year4(date.y) \o Hyphen \o PadStart2(date.m)
      [] period = "weekly" -> Year4(date.y) \o Hyphen \o LetterW \o PadStart2((date.d + 6) \div 7)
      [] period = "yearly" -> Year4(date.y)
      [] OTHER -> Year4(date.y) \o Hyphen \o PadStart2(date.m) \o Hyphen \o PadStart2(date.d)

NewBucket(key) ==
    [period |-> key, income |-> 0, expense |-> 0, balance |-> 0, transactions |-> <<>>]

\* One pass of the forEach body on the bucket of the transaction.
AddToBucketStaleBalance(bucket, t) ==
    LET income == IF t.type = "income" THEN bucket.income + t.amount ELSE bucket.income
        expense == IF t.type = "income" THEN bucket.expense ELSE bucket.expense + t.amount
    IN [period |-> bucket.period, income |-> income, expense |-> expense,
        balance |-> bucket.income - bucket.expense,
        transactions |-> Append(bucket.transactions, t)]

AddToBucket(bucket, t) ==
    LET income == IF t.type = "income" THEN bucket.income + t.amount ELSE bucket.income
        expense == IF t.type = "income" THEN bucket.expense ELSE bucket.expense + t.amount
    IN [period |-> bucket.period, income |-> income, expense |-> expense,
        balance |-> income - expense,
        transactions |-> Append(bucket.transactions, t)]

RECURSIVE GroupFrom(_, _, _)
GroupFrom(grouped, rest, period) ==
    IF rest = <<>> THEN grouped
    ELSE LET t == Head(rest)
             key == PeriodKey(t.date, period)
             known == \E i \in 1..Len(grouped) : grouped[i].period = key
             g == IF known THEN grouped ELSE Append(grouped, NewBucket(key))
             i == CHOOSE j \in 1..Len(g) : g[j].period = key
         IN GroupFrom([g EXCEPT ![i] = AddToBucket(@, t)], Tail(rest), period)

\* a.localeCompare(b) < 0 on labels
RECURSIVE LabelBefore(_, _)
LabelBefore(a, b) ==
    IF b = <<>> THEN FALSE
    ELSE IF a = <<>> THEN TRUE
    ELSE IF Head(a) # Head(b) THEN Head(a) < Head(b)
    ELSE LabelBefore(Tail(a), Tail(b))

RECURSIVE InsertBucket(_, _)
InsertBucket(sorted, b) ==
    IF sorted = <<>> THEN <<b>>
    ELSE LET n == Len(sorted)
         IN IF LabelBefore(b.period, sorted[n].period)
            THEN Append(InsertBucket(SubSeq(sorted, 1, n - 1), b), sorted[n])
            ELSE Append(sorted, b)

RECURSIVE SortBuckets(_, _)
SortBuckets(sorted, rest) ==
    IF rest = <<>> THEN sorted
    ELSE SortBuckets(InsertBucket(sorted, Head(rest)), Tail(rest))

\* function groupTransactionsByPeriod(transactions, period)
groupTransactionsByPeriod(transactions, period) ==
    SortBuckets(<<>>, GroupFrom(<<>>, transactions, period))

\* The body of the 200 answer of GET /:email.
TransactionsResponseTotalsOfPage(incomeDocs, expenseDocs, type, sortBy, limit, period) ==
    LET formattedIncome == Format(Fetch(incomeDocs, type, "income"), "income")
        formattedExpense == Format(Fetch(expenseDocs, type, "expense"), "expense")
        sorted == sortTransactions(formattedIncome \o formattedExpense, sortBy)
        allTransactions == ApplyLimit(sorted, limit)
        totalIncome == SumAmount(SelectSeq(allTransactions, LAMBDA t : t.type = "income"))
        totalExpense == SumAmount(SelectSeq(allTransactions, LAMBDA t : t.type = "expense"))
    IN [transactions |-> allTransactions,
        totals |-> [income |-> totalIncome, expense |-> totalExpense,
                    balance |-> totalIncome - totalExpense],
        counts |-> [income |-> Len(formattedIncome), expense |-> Len(formattedExpense),
                    total |-> Len(allTransactions)],
        periodData |-> IF period = Null THEN <<>>
                       ELSE groupTransactionsByPeriod(allTransactions, period)]

TransactionsResponse(incomeDocs, expenseDocs, type, sortBy, limit, period) ==
    LET formattedIncome == Format(Fetch(incomeDocs, type, "income"), "income")
        formattedExpense == Format(Fetch(expenseDocs, type, "expense"), "expense")
        sorted == sortTransactions(formattedIncome \o formattedExpense, sortBy)
        allTransactions == ApplyLimit(sorted, limit)
        totalIncome == SumAmount(formattedIncome)
        totalExpense == SumAmount(formattedExpense)
    IN [transactions |-> allTransactions,
        totals |-> [income |-> totalIncome, expense |-> totalExpense,
                    balance |-> totalIncome - totalExpense],
        counts |-> [income |-> Len(formattedIncome), expense |-> Len(formattedExpense),
                    total |-> Len(allTransactions)],
        periodData |-> IF period = Null THEN <<>>
                       ELSE groupTransactionsByPeriod(allTransactions, period)]

-----------------------------------------------------------------------------
(* The ledger specification *)

NoQuery == [type |-> Null, sortBy |-> Null, limit |-> <<>>, period |-> Null]

NoAnswer == TransactionsResponse(<<>>, <<>>, Null, Null, <<>>, Null)

NoRequest == Response("none", 0, 0, Null, Null, 0)

InitStore ==
    /\ now = 0
    /\ incomes = {}
    /\ expenses = {}
    /\ balance = [k \in ExistingAccounts |-> InitialBalance]
    /\ nextId = 1
    /\ last = NoRequest
    /\ resetCodes = <<>>
    /\ password = [u \in Users |-> Hash("p0")]
    /\ verified = {}
    /\ query = NoQuery
    /\ answer = NoAnswer
    /\ requests = [c \in Clients |-> Idle]

\* No report is asked for.
NoReports ==
    /\ incomeStore = <<>>
    /\ expenseStore = <<>>
    /\ today = [y |-> 2024, m |-> 1, d |-> 1, min |-> 0]

\* No feed request is in progress.
Init ==
    /\ InitStore
    /\ NoReports
    /\ incomeTransactions = <<>>
    /\ expenseTransactions = <<>>

\* Bodies of POST /add and POST /minus.
PostBodies ==
    [email : Emails, amount : ValidAmounts, account : AccountNames \cup {Null},
     missing : {FALSE}]
    \cup [email : {"u1"}, amount : InvalidAmounts, account : {"Cash"}, missing : {FALSE}]
    \cup [email : {"u1"}, amount : ValidAmounts, account : {"Cash"}, missing : {TRUE}]

\* Bodies of PUT /:id.
UpdateBodies ==
    [hasAmount : {TRUE}, amount : UpdateAmounts, account : {Null}, createdAt : {<<>>}]
    \cup [hasAmount : {FALSE}, amount : {0}, account : AccountNames \cup {Null},
          createdAt : {<<>>}]
    \cup [hasAmount : {FALSE}, amount : {0}, account : {Null}, createdAt : {<<MaxClock>>}]

\* Bodies of POST /transfer.
TransferBodies ==
    [email : Emails, fromAccount : AccountNames, toAccount : AccountNames,
     amount : ValidAmounts, missing : {FALSE}]
    \cup [email : {"u1"}, fromAccount : {"Cash"}, toAccount : {"Bank"},
          amount : InvalidAmounts, missing : {FALSE}]
    \cup [email : {"u1"}, fromAccount : {"Cash"}, toAccount : {"Bank"},
          amount : ValidAmounts, missing : {TRUE}]

\* Requests handled one at a time, with a store whose account updates succeed.
Next ==
    \/ \E b \in PostBodies :
          PostIncomeAdd(b.email, b.amount, b.account, b.missing, FALSE)
    \/ \E id \in Ids, b \in UpdateBodies : PutIncome(id, b)
    \/ \E id \in Ids : DeleteIncome(id, FALSE)
    \/ \E b \in PostBodies :
          PostExpenseMinus(b.email, b.amount, b.account, b.missing, FALSE)
    \/ \E id \in Ids, b \in UpdateBodies : PutExpense(id, b)
    \/ \E id \in Ids : DeleteExpense(id, FALSE)
    \/ \E b \in TransferBodies :
          PostExpenseTransfer(b.email, b.fromAccount, b.toAccount, b.amount, b.missing, 0)
    \/ \E d \in ClockSteps : Tick(d)

Spec == Init /\ [][Next]_vars

SpecAuth == Init /\ [][NextAuth]_vars

\* The same handlers with a store whose account updates may throw: the
\* inserts, the deletes and the transfer, which are the handlers that update
\* an account.
NextFaults ==
    \/ \E b \in PostBodies, f \in BOOLEAN :
          PostIncomeAdd(b.email, b.amount, b.account, b.missing, f)
    \/ \E id \in Ids, f \in BOOLEAN : DeleteIncome(id, f)
    \/ \E b \in PostBodies, f \in BOOLEAN :
          PostExpenseMinus(b.email, b.amount, b.account, b.missing, f)
    \/ \E id \in Ids, f \in BOOLEAN : DeleteExpense(id, f)
    \/ \E b \in TransferBodies, f \in 0..2 :
          PostExpenseTransfer(b.email, b.fromAccount, b.toAccount, b.amount, b.missing, f)

SpecFaults == Init /\ [][NextFaults]_vars

-----------------------------------------------------------------------------
(* The feed specification *)

\* router.get("/:email") on the documents the two queries found.
GetTransactions(type, sortBy, limit, period) ==
    /\ query' = [type |-> type, sortBy |-> sortBy, limit |-> limit, period |-> period]
    /\ answer' = TransactionsResponse(incomeTransactions, expenseTransactions,
                                      type, sortBy, limit, period)
    /\ last' = Response("getTransactions", 200, 0, Null, Null, 0)
    /\ UNCHANGED <<now, ledgerVars, authVars, incomeTransactions, expenseTransactions, readVars, raceVars>>

SeqsUpTo(S, n) == UNION {[1..k -> S] : k \in 0..n}

Limits == {<<>>} \cup {<<n>> : n \in 0..MaxFeed}

InitFeed ==
    /\ InitStore
    /\ NoReports
    /\ \E i \in SeqsUpTo(FeedDocs, MaxFeed), e \in SeqsUpTo(FeedDocs, MaxFeed) :
          /\ Len(i) + Len(e) <= MaxFeed
          /\ incomeTransactions = i
          /\ expenseTransactions = e

\* One request on the chosen documents: the handler keeps no state, so a
\* second request would repeat one of the first.
NextFeed ==
    /\ last = NoRequest
    /\ \E t \in Types, s \in SortKeys, l \in Limits, p \in Periods :
          GetTransactions(t, s, l, p)

SpecFeed == InitFeed /\ [][NextFeed]_vars

-----------------------------------------------------------------------------
(* Dates of the reports *)

IsLeapYear(y) == (y % 4 = 0 /\ y % 100 # 0) \/ y % 400 = 0

DaysInMonth(y, m) ==
    IF m = 2 THEN (IF IsLeapYear(y) THEN 29 ELSE 28)
    ELSE IF m \in {4, 6, 9, 11} THEN 30 ELSE 31

\* new Date(year, monthIndex, day) at 00:00, for day 1 or day 0 (the last
\* day of the month before); m counts from 1 and may run past 12 or below 1.
DateOf(y, m, d) ==
    LET yy == y + ((m - 1) \div 12)
        mm == ((m - 1) % 12) + 1
        py == IF mm = 1 THEN yy - 1 ELSE yy
        pm == IF mm = 1 THEN 12 ELSE mm - 1
    IN IF d = 0
       THEN [y |-> py, m |-> pm, d |-> DaysInMonth(py, pm), min |-> 0]
       ELSE [y |-> yy, m |-> mm, d |-> d, min |-> 0]

\* start.setDate(now.getDate() - 7): the same time of day seven days before.
SevenDaysBefore(t) ==
    LET py == IF t.m = 1 THEN t.y - 1 ELSE t.y
        pm == IF t.m = 1 THEN 12 ELSE t.m - 1
    IN IF t.d > 7
       THEN [y |-> t.y, m |-> t.m, d |-> t.d - 7, min |-> t.min]
       ELSE [y |-> py, m |-> pm, d |-> DaysInMonth(py, pm) + t.d - 7, min |-> t.min]

\* The instant of a Date, for $gte / $lte.
Instant(date) == DayNumber(date) * 1440 + date.min

\* function getDateRangeForPeriod(period) of routes/transactions.js
getDateRangeForPeriod(period) ==
    CASE period = "weekly" -> [start |-> SevenDaysBefore(today), end |-> today]
      [] period = "monthly" -> [start |-> DateOf(today.y, today.m, 1),
                                end |-> DateOf(today.y, today.m + 1, 0)]
      [] period = "yearly" -> [start |-> DateOf(today.y, 1, 1),
                               end |-> DateOf(today.y, 12, 31)]
      [] OTHER -> [start |-> DateOf(today.y, today.m, 1),
                   end |-> DateOf(today.y, today.m + 1, 0)]

\* function getDateRange(period) of the dashboard, the income and the expense routes
getDateRange(period) ==
    CASE period = "weekly" -> [start |-> SevenDaysBefore(today), end |-> today]
      [] period = "monthly" -> [start |-> DateOf(today.y, today.m, 1),
                                end |-> DateOf(today.y, today.m + 1, 0)]
      [] period = "yearly" -> [start |-> DateOf(today.y, 1, 1),
                               end |-> DateOf(today.y, 12, 31)]
      [] OTHER -> [start |-> DateOf(today.y, today.m, 1),
                   end |-> DateOf(today.y, today.m + 1, 0)]

\* date: { $gte: start, $lte: end }
InRange(doc, range) ==
    /\ Instant(range.start) <= Instant(doc.moment.date)
    /\ Instant(doc.moment.date) <= Instant(range.end)

-----------------------------------------------------------------------------
(* routes/transactions.js: GET /summary/:email *)

\* The period of a request that names none.
DefaultPeriod(period) == IF period = Null THEN "monthly" ELSE period

\* Object.entries(periodMap): the keys that are whole numbers come first in
\* ascending order, the others in the order of their insertion.
ObjectEntries(entries, period) ==
    IF period = "yearly" THEN SortBuckets(<<>>, entries) ELSE entries

RECURSIVE MergeTotals(_, _, _)
MergeTotals(periodMap, rest, type) ==
    IF rest = <<>> THEN periodMap
    ELSE LET item == Head(rest)
             known == \E i \in 1..Len(periodMap) : periodMap[i].period = item.period
             pm == IF known THEN periodMap
                   ELSE Append(periodMap, [period |-> item.period, income |-> 0,
                                           expense |-> 0, balance |-> 0])
             i == CHOOSE j \in 1..Len(pm) : pm[j].period = item.period
             entry == IF type = "income"
                      THEN [pm[i] EXCEPT !.income = item.income,
                                         !.balance = @ + item.income]
                      ELSE [pm[i] EXCEPT !.expense = item.expense,
                                         !.balance = @ - item.expense]
         IN MergeTotals([pm EXCEPT ![i] = entry], Tail(rest), type)

\* function calculatePeriodTotals(incomeByPeriod, expenseByPeriod)
calculatePeriodTotals(incomeByPeriod, expenseByPeriod, period) ==
    ObjectEntries(MergeTotals(MergeTotals(<<>>, incomeByPeriod, "income"),
                              expenseByPeriod, "expense"), period)

\* The body of the 200 answer of GET /summary/:email.
SummaryResponse(incomeDocs, expenseDocs, email, period) ==
    LET dateRange == getDateRangeForPeriod(period)
        incomes_ == SelectSeq(incomeDocs,
                        LAMBDA doc : doc.email = email /\ InRange(doc, dateRange))
        expenses_ == SelectSeq(expenseDocs,
                        LAMBDA doc : doc.email = email /\ InRange(doc, dateRange))
        incomeByPeriod == groupTransactionsByPeriod(Format(incomes_, "income"), period)
        expenseByPeriod == groupTransactionsByPeriod(Format(expenses_, "expense"), period)
    IN [period |-> period,
        dateRange |-> dateRange,
        incomeByPeriod |-> incomeByPeriod,
        expenseByPeriod |-> expenseByPeriod,
        periodTotals |-> calculatePeriodTotals(incomeByPeriod, expenseByPeriod, period),
        summary |-> [totalIncome |-> SumAmount(incomes_),
                     totalExpense |-> SumAmount(expenses_),
                     balance |-> SumAmount(incomes_) - SumAmount(expenses_)]]

\* router.get("/summary/:email")
GetSummary(email, period) ==
    /\ query' = [email |-> email, period |-> period]
    /\ answer' = SummaryResponse(incomeStore, expenseStore, email, DefaultPeriod(period))
    /\ last' = Response("getSummary", 200, 0, Null, Null, 0)
    /\ UNCHANGED <<now, ledgerVars, authVars, incomeTransactions, expenseTransactions, readVars, raceVars>>

\* The instants new Date() is drawn from, and the stored dates.
SummaryDays ==
    { [y |-> 2024, m |-> 2, d |-> 10, min |-> 600],
      [y |-> 2024, m |-> 3, d |-> 3, min |-> 600],
      [y |-> 2024, m |-> 12, d |-> 31, min |-> 600] }

SummaryDates ==
    { [y |-> 2023, m |-> 12, d |-> 31, min |-> 720],
      [y |-> 2024, m |-> 1, d |-> 1, min |-> 0],
      [y |-> 2024, m |-> 2, d |-> 1, min |-> 0],
      [y |-> 2024, m |-> 2, d |-> 29, min |-> 0],
      [y |-> 2024, m |-> 2, d |-> 29, min |-> 720],
      [y |-> 2024, m |-> 12, d |-> 31, min |-> 0],
      [y |-> 2024, m |-> 12, d |-> 31, min |-> 720] }

SummaryDocs ==
    { [email |-> e, amount |-> 1, moment |-> [date |-> d, time |-> "09:00"]] :
          e \in Emails, d \in SummaryDates }

InitSummary ==
    /\ InitStore
    /\ incomeTransactions = <<>>
    /\ expenseTransactions = <<>>
    /\ today \in SummaryDays
    /\ \E i \in SeqsUpTo(SummaryDocs, MaxSummary), e \in SeqsUpTo(SummaryDocs, MaxSummary) :
          /\ Len(i) + Len(e) <= MaxSummary
          /\ incomeStore = i
          /\ expenseStore = e

NextSummary ==
    /\ last = NoRequest
    /\ \E e \in Emails, p \in Periods : GetSummary(e, p)

SpecSummary == InitSummary /\ [][NextSummary]_vars

-----------------------------------------------------------------------------
(* routes/dashboard: GET /:email *)

MonthNames ==
    <<"Jan", "Feb", "Mar", "Apr", "May", "Jun", "Jul", "Aug", "Sep", "Oct", "Nov", "Dec">>

\* Model.aggregate([{ $match: { email, date: { $gte, $lte } } },
\*                  { $group: { _id: null, total: { $sum: "$amount" } } }])[0]?.total || 0
RangeTotal(store, email, range) ==
    SumAmount(SelectSeq(store, LAMBDA doc : doc.email = email /\ InRange(doc, range)))

\* One pass of the loop of getMonthlyTrend, for the month i months back.
MonthlyEntry(incomeDocs, expenseDocs, email, i) ==
    LET monthStart == DateOf(today.y, today.m - i, 1)
        monthEnd == DateOf(today.y, today.m - i + 1, 0)
        range == [start |-> monthStart, end |-> monthEnd]
        income == RangeTotal(incomeDocs, email, range)
        expense == RangeTotal(expenseDocs, email, range)
    IN [period |-> <<MonthNames[monthStart.m], monthStart.y>>,
        month |-> monthStart.m, year |-> monthStart.y,
        income |-> income, expense |-> expense, balance |-> income - expense]

getMonthlyTrendObservedOnly(incomeDocs, expenseDocs, email, months) ==
    SelectSeq([k \in 1..months |-> MonthlyEntry(incomeDocs, expenseDocs, email, months - k)],
              LAMBDA entry : entry.income + entry.expense > 0)

\* async function getMonthlyTrend(email, months)
getMonthlyTrend(incomeDocs, expenseDocs, email, months) ==
    [k \in 1..months |-> MonthlyEntry(incomeDocs, expenseDocs, email, months - k)]

\* date.setDate(date.getDate() - 1) and date.setDate(date.getDate() + 1)
DayBefore(t) ==
    IF t.d > 1 THEN [t EXCEPT !.d = @ - 1]
    ELSE [DateOf(t.y, t.m, 0) EXCEPT !.min = t.min]

DayAfter(t) ==
    IF t.d < DaysInMonth(t.y, t.m) THEN [t EXCEPT !.d = @ + 1]
    ELSE [DateOf(t.y, t.m + 1, 1) EXCEPT !.min = t.min]

\* date.setDate(date.getDate() - n) and date.setDate(date.getDate() + n)
RECURSIVE DaysBefore(_, _)
DaysBefore(t, n) ==
    IF n = 0 THEN t
    ELSE IF n >= 7 THEN DaysBefore(SevenDaysBefore(t), n - 7)
    ELSE DaysBefore(DayBefore(t), n - 1)

RECURSIVE DaysAfter(_, _)
DaysAfter(t, n) == IF n = 0 THEN t ELSE DaysAfter(DayAfter(t), n - 1)

\* date.toISOString().split('T')[0]
IsoDay(t) == [y |-> t.y, m |-> t.m, d |-> t.d]

\* One pass of the loop of getWeeklyTrend, for the week i weeks back.
WeeklyEntry(incomeDocs, expenseDocs, email, i) ==
    LET weekStart == DaysBefore(today, i * 7)
        weekEnd == DaysAfter(weekStart, 6)
        range == [start |-> weekStart, end |-> weekEnd]
        income == RangeTotal(incomeDocs, email, range)
        expense == RangeTotal(expenseDocs, email, range)
    IN [period |-> <<"Week", (weekStart.d + 6) \div 7>>,
        weekStart |-> IsoDay(weekStart), weekEnd |-> IsoDay(weekEnd),
        income |-> income, expense |-> expense, balance |-> income - expense]

\* async function getWeeklyTrend(email, weeks)
getWeeklyTrend(incomeDocs, expenseDocs, email, weeks) ==
    [k \in 1..weeks |-> WeeklyEntry(incomeDocs, expenseDocs, email, weeks - k)]

\* One pass of the loop of getYearlyTrend, for the year i years back.
YearlyEntry(incomeDocs, expenseDocs, email, i) ==
    LET year == today.y - i
        range == [start |-> DateOf(year, 1, 1), end |-> DateOf(year, 12, 31)]
        income == RangeTotal(incomeDocs, email, range)
        expense == RangeTotal(expenseDocs, email, range)
    IN [period |-> Year4(year), year |-> year,
        income |-> income, expense |-> expense, balance |-> income - expense]

\* async function getYearlyTrend(email, years)
getYearlyTrend(incomeDocs, expenseDocs, email, years) ==
    [k \in 1..years |-> YearlyEntry(incomeDocs, expenseDocs, email, years - k)]

\* const { period = "monthly", months = 12 } = req.query; months is <<>>
\* when the query has none and <<n>> for the text of n.
RequestedMonths(months) == IF months = <<>> THEN DefaultTrendMonths ELSE months[1]

\* The body of the 200 answer of GET /period/:email of the dashboard.
PeriodTrendResponse(incomeDocs, expenseDocs, email, period, months) ==
    [period |-> period,
     data |-> CASE period = "monthly" ->
                     getMonthlyTrend(incomeDocs, expenseDocs, email, RequestedMonths(months))
                [] period = "weekly" ->
                     getWeeklyTrend(incomeDocs, expenseDocs, email, WeeklyTrendWeeks)
                [] period = "yearly" ->
                     getYearlyTrend(incomeDocs, expenseDocs, email, YearlyTrendYears)
                [] OTHER ->
                     getMonthlyTrend(incomeDocs, expenseDocs, email, DefaultTrendMonths)]

\* router.get("/period/:email") of the dashboard
GetPeriodTrend(email, period, months) ==
    /\ query' = [email |-> email, period |-> period, months |-> months]
    /\ answer' = PeriodTrendResponse(incomeStore, expenseStore, email,
                                     DefaultPeriod(period), months)
    /\ last' = Response("getPeriodTrend", 200, 0, Null, Null, 0)
    /\ UNCHANGED <<now, ledgerVars, authVars, incomeTransactions, expenseTransactions, readVars, raceVars>>

\* Model.find({ email }).sort({ date: -1, time: -1 }): a comes after b
ComesAfterInRecent(b, a) ==
    \/ Instant(b.moment.date) > Instant(a.moment.date)
    \/ /\ Instant(b.moment.date) = Instant(a.moment.date)
       /\ Minutes(b.moment.time) >= Minutes(a.moment.time)

RECURSIVE InsertRecent(_, _)
InsertRecent(sorted, x) ==
    IF sorted = <<>> THEN <<x>>
    ELSE LET n == Len(sorted)
         IN IF ComesAfterInRecent(sorted[n], x)
            THEN Append(sorted, x)
            ELSE Append(InsertRecent(SubSeq(sorted, 1, n - 1), x), sorted[n])

RECURSIVE SortRecent(_, _)
SortRecent(sorted, rest) ==
    IF rest = <<>> THEN sorted
    ELSE SortRecent(InsertRecent(sorted, Head(rest)), Tail(rest))

\* seq.slice(0, n) / .limit(n)
FirstN(seq, n) == SubSeq(seq, 1, IF n < Len(seq) THEN n ELSE Len(seq))

\* Model.find({ email }).sort({ date: -1, time: -1 }).limit(n).lean()
FindRecent(store, email, n) ==
    FirstN(SortRecent(<<>>, SelectSeq(store, LAMBDA doc : doc.email = email)), n)

\* docs.map(d => ({ ...d, type }))
WithType(docs, type) ==
    [i \in 1..Len(docs) |->
        [type |-> type, id |-> docs[i].id, email |-> docs[i].email,
         amount |-> docs[i].amount, date |-> docs[i].moment.date,
         time |-> docs[i].moment.time]]

\* formattedRecent: the two lists merged, sorted with the date comparator
\* and cut to RecentLimit.
FormattedRecent(recentIncomes, recentExpenses) ==
    FirstN(sortTransactions(WithType(recentIncomes, "income")
                            \o WithType(recentExpenses, "expense"), "date_desc"),
           RecentLimit)

\* Model.aggregate([{ $match }, { $group: { _id: "$field", total, count } }]),
\* as the total and the count of every value of the field.
GroupTotals(docs, field) ==
    [v \in {docs[i][field] : i \in DOMAIN docs} |->
        [total |-> SumAmount(SelectSeq(docs, LAMBDA doc : doc[field] = v)),
         count |-> Len(SelectSeq(docs, LAMBDA doc : doc[field] = v))]]

\* The body of the 200 answer of the dashboard.
DashboardResponse(incomeDocs, expenseDocs, email, period) ==
    LET dateRange == getDateRange(period)
        currentMonth == [start |-> DateOf(today.y, today.m, 1),
                         end |-> DateOf(today.y, today.m + 1, 0)]
        ownIncome == SelectSeq(incomeDocs, LAMBDA doc : doc.email = email)
        ownExpense == SelectSeq(expenseDocs, LAMBDA doc : doc.email = email)
        rangedIncome == SelectSeq(ownIncome, LAMBDA doc : InRange(doc, dateRange))
        rangedExpense == SelectSeq(ownExpense, LAMBDA doc : InRange(doc, dateRange))
        totalIncome == SumAmount(ownIncome)
        totalExpense == SumAmount(ownExpense)
        currentMonthIncome == RangeTotal(incomeDocs, email, currentMonth)
        currentMonthExpense == RangeTotal(expenseDocs, email, currentMonth)
    IN [period |-> period,
        dateRange |-> dateRange,
        summary |-> [totalIncome |-> totalIncome, totalExpense |-> totalExpense,
                     currentMonthIncome |-> currentMonthIncome,
                     currentMonthExpense |-> currentMonthExpense,
                     balance |-> totalIncome - totalExpense,
                     currentMonthBalance |-> currentMonthIncome - currentMonthExpense],
        categories |-> [income |-> GroupTotals(rangedIncome, "category"),
                        expense |-> GroupTotals(rangedExpense, "category")],
        divisions |-> [income |-> GroupTotals(rangedIncome, "division"),
                       expense |-> GroupTotals(rangedExpense, "division")],
        recentTransactions |->
            FormattedRecent(FindRecent(incomeDocs, email, RecentPerCollection),
                            FindRecent(expenseDocs, email, RecentPerCollection)),
        trends |-> getMonthlyTrend(incomeDocs, expenseDocs, email, DashboardTrendMonths),
        counts |-> [totalIncome |-> Len(ownIncome), totalExpense |-> Len(ownExpense)]]

\* router.get("/:email") of the dashboard
GetDashboard(email, period) ==
    /\ query' = [email |-> email, period |-> period]
    /\ answer' = DashboardResponse(incomeStore, expenseStore, email, DefaultPeriod(period))
    /\ last' = Response("getDashboard", 200, 0, Null, Null, 0)
    /\ UNCHANGED <<now, ledgerVars, authVars, incomeTransactions, expenseTransactions, readVars, raceVars>>

\* The k-th income and the k-th expense of the owner: one entry a month,
\* going back from March 2024, the expense later in the month at noon.
DashIncome(k) ==
    [id |-> k, email |-> "u1", amount |-> 1,
     moment |-> [date |-> [DateOf(2024, 4 - k, k) EXCEPT !.min = 0], time |-> "09:00"],
     category |-> IF k % 2 = 0 THEN "Salary" ELSE "Gift",
     division |-> IF k % 3 = 0 THEN "Office" ELSE "Personal"]

DashExpense(k) ==
    [id |-> k, email |-> "u1", amount |-> 2,
     moment |-> [date |-> [DateOf(2024, 4 - k, 10 + k) EXCEPT !.min = 720], time |-> "17:30"],
     category |-> IF k % 2 = 0 THEN "Food" ELSE "Fuel",
     division |-> IF k % 3 = 0 THEN "Office" ELSE "Personal"]

\* An entry of another owner.
OtherOwners(doc) == [doc EXCEPT !.email = "u2", !.id = 0]

\* A store of n entries of the owner in the given natural order, with or
\* without an entry of another owner in front.
Reverse(seq) == [i \in 1..Len(seq) |-> seq[Len(seq) + 1 - i]]

DashEntry(type, k) == IF type = "income" THEN DashIncome(k) ELSE DashExpense(k)

DashStore(type, n, reversed, other) ==
    LET own == [k \in 1..n |-> DashEntry(type, k)]
    IN (IF other THEN <<OtherOwners(DashEntry(type, 1))>> ELSE <<>>)
       \o (IF reversed THEN Reverse(own) ELSE own)

DashDays ==
    { [y |-> 2024, m |-> 3, d |-> 3, min |-> 600],
      [y |-> 2024, m |-> 1, d |-> 31, min |-> 600] }

InitDashboard ==
    /\ InitStore
    /\ incomeTransactions = <<>>
    /\ expenseTransactions = <<>>
    /\ today \in DashDays
    /\ \E ni \in 0..MaxDash, ne \in 0..MaxDash, reversed \in BOOLEAN, other \in BOOLEAN :
          /\ incomeStore = DashStore("income", ni, reversed, other)
          /\ expenseStore = DashStore("expense", ne, reversed, other)

NextDashboard ==
    /\ last = NoRequest
    /\ \/ \E e \in Emails, p \in Periods : GetDashboard(e, p)
       \/ \E e \in Emails, p \in Periods, m \in {<<>>, <<1>>, <<3>>} :
             GetPeriodTrend(e, p, m)

SpecDashboard == InitDashboard /\ [][NextDashboard]_vars

-----------------------------------------------------------------------------
(* routes/income, routes/expense, routes/transactions: the filtered reads *)

\* The query object built from req.params.email and req.query: a date range
\* only when startDate and endDate are both given, and one equality for each
\* of division, category and account that is given.  A date of the query
\* is <<>> when absent and <<date>> when given.
MatchesAnyOwner(doc, email, f) ==
    /\ (f.startDate # <<>> /\ f.endDate # <<>>) =>
          InRange(doc, [start |-> f.startDate[1], end |-> f.endDate[1]])
    /\ f.division # Null => doc.division = f.division
    /\ f.category # Null => doc.category = f.category
    /\ f.account # Null => doc.account = f.account

MatchesIgnoringAccount(doc, email, f) ==
    /\ doc.email = email
    /\ (f.startDate # <<>> /\ f.endDate # <<>>) =>
          InRange(doc, [start |-> f.startDate[1], end |-> f.endDate[1]])
    /\ f.division # Null => doc.division = f.division
    /\ f.category # Null => doc.category = f.category

Matches(doc, email, f) ==
    /\ doc.email = email
    /\ (f.startDate # <<>> /\ f.endDate # <<>>) =>
          InRange(doc, [start |-> f.startDate[1], end |-> f.endDate[1]])
    /\ f.division # Null => doc.division = f.division
    /\ f.category # Null => doc.category = f.category
    /\ f.account # Null => doc.account = f.account

\* Model.find(query), in natural order
Find(store, email, f) == SelectSeq(store, LAMBDA doc : Matches(doc, email, f))

\* One pass of the forEach body of groupByPeriod on the bucket of the entry.
AddItem(bucket, entry) ==
    [period |-> bucket.period,
     totalAmount |-> bucket.totalAmount + entry.amount,
     count |-> bucket.count + 1,
     items |-> Append(bucket.items, entry)]

RECURSIVE GroupItemsFrom(_, _, _)
GroupItemsFrom(grouped, rest, period) ==
    IF rest = <<>> THEN grouped
    ELSE LET entry == Head(rest)
             key == PeriodKey(entry.moment.date, period)
             known == \E i \in 1..Len(grouped) : grouped[i].period = key
             g == IF known THEN grouped
                  ELSE Append(grouped, [period |-> key, totalAmount |-> 0,
                                        count |-> 0, items |-> <<>>])
             i == CHOOSE j \in 1..Len(g) : g[j].period = key
         IN GroupItemsFrom([g EXCEPT ![i] = AddItem(@, entry)], Tail(rest), period)

\* function groupByPeriod(incomes, period) of the income routes and
\* function groupByPeriod(expenses, period) of the expense routes:
\* Object.values(grouped), not sorted.
groupByPeriod(entries, period) ==
    ObjectEntries(GroupItemsFrom(<<>>, entries, period), period)

\* The body of the 200 answer of GET /income/:email and GET /expense/:email.
ListingResponse(store, email, f, period) ==
    LET details == SortRecent(<<>>, Find(store, email, f))
    IN IF period # Null
       THEN [grouped |-> TRUE, data |-> groupByPeriod(details, period)]
       ELSE [grouped |-> FALSE, data |-> details]

\* router.get("/:email") of the income routes
GetIncome(email, f, period) ==
    /\ query' = [email |-> email, filters |-> f, period |-> period]
    /\ answer' = ListingResponse(incomeStore, email, f, period)
    /\ last' = Response("getIncome", 200, 0, Null, Null, 0)
    /\ UNCHANGED <<now, ledgerVars, authVars, incomeTransactions, expenseTransactions, readVars, raceVars>>

\* router.get("/:email") of the expense routes
GetExpense(email, f, period) ==
    /\ query' = [email |-> email, filters |-> f, period |-> period]
    /\ answer' = ListingResponse(expenseStore, email, f, period)
    /\ last' = Response("getExpense", 200, 0, Null, Null, 0)
    /\ UNCHANGED <<now, ledgerVars, authVars, incomeTransactions, expenseTransactions, readVars, raceVars>>

\* The body of the 200 answer of GET /income/total/:email.
TotalResponse(store, email, f) == [totalIncome |-> SumAmount(Find(store, email, f))]

\* router.get("/total/:email") of the income routes
GetIncomeTotal(email, f) ==
    /\ query' = [email |-> email, filters |-> f, period |-> Null]
    /\ answer' = TotalResponse(incomeStore, email, f)
    /\ last' = Response("getIncomeTotal", 200, 0, Null, Null, 0)
    /\ UNCHANGED <<now, ledgerVars, authVars, incomeTransactions, expenseTransactions, readVars, raceVars>>

\* router.get("/:email") of routes/transactions.js, the two queries included.
GetTransactionsOf(email, f, type, sortBy, limit, period) ==
    /\ query' = [email |-> email, filters |-> f, type |-> type, sortBy |-> sortBy,
                 limit |-> limit, period |-> period]
    /\ incomeTransactions' = Fetch(Find(incomeStore, email, f), type, "income")
    /\ expenseTransactions' = Fetch(Find(expenseStore, email, f), type, "expense")
    /\ answer' = TransactionsResponse(Find(incomeStore, email, f), Find(expenseStore, email, f),
                                      type, sortBy, limit, period)
    /\ last' = Response("getTransactionsOf", 200, 0, Null, Null, 0)
    /\ UNCHANGED <<now, ledgerVars, authVars, readVars, raceVars>>

\* The dates of the entries the filtered reads are tried on.
ListDates ==
    << [y |-> 2023, m |-> 12, d |-> 29, min |-> 0],
       [y |-> 2024, m |-> 1, d |-> 5, min |-> 0],
       [y |-> 2024, m |-> 1, d |-> 31, min |-> 720],
       [y |-> 2024, m |-> 2, d |-> 10, min |-> 0],
       [y |-> 2024, m |-> 1, d |-> 31, min |-> 0] >>

\* The k-th entry of the pool the stores are drawn from.
ListEntry(k) ==
    [id |-> k,
     email |-> IF k % 3 = 0 THEN "u2" ELSE "u1",
     amount |-> (k % 2) + 1,
     moment |-> [date |-> ListDates[((k - 1) % Len(ListDates)) + 1],
                 time |-> IF k % 2 = 0 THEN "09:00" ELSE "17:30"],
     division |-> IF k % 2 = 0 THEN "Office" ELSE "Personal",
     category |-> IF (k \div 2) % 2 = 0 THEN "Salary" ELSE "Food",
     account |-> IF k % 3 = 2 THEN "Cash" ELSE "Bank"]

RECURSIVE Ascending(_)
Ascending(S) ==
    IF S = {} THEN <<>>
    ELSE LET m == CHOOSE x \in S : \A y \in S : y <= x
         IN Append(Ascending(S \ {m}), m)

\* The store holding the entries ks of the pool, in the order of the pool.
ListStore(ks, shift) ==
    LET order == Ascending(ks)
    IN [i \in 1..Len(order) |-> ListEntry(order[i] + shift)]

ListFilters ==
    [startDate : {<<>>, <<DateOf(2024, 1, 1)>>},
     endDate : {<<>>, <<DateOf(2024, 1, 31)>>},
     division : {Null, "Personal"},
     category : {Null, "Food"},
     account : {Null, "Cash", "Bank"}]

InitListing ==
    /\ InitStore
    /\ incomeTransactions = <<>>
    /\ expenseTransactions = <<>>
    /\ today = [y |-> 2024, m |-> 2, d |-> 10, min |-> 600]
    /\ \E ks \in SUBSET (1..MaxPool) :
          /\ incomeStore = ListStore(ks, 0)
          /\ expenseStore = ListStore(ks, 1)

NextListing ==
    /\ last = NoRequest
    /\ \/ \E e \in Emails, f \in ListFilters, p \in Periods : GetIncome(e, f, p)
       \/ \E e \in Emails, f \in ListFilters, p \in Periods : GetExpense(e, f, p)
       \/ \E e \in Emails, f \in ListFilters : GetIncomeTotal(e, f)
       \/ \E e \in Emails, f \in ListFilters, t \in Types, s \in {Null, "amount_desc"},
             l \in {<<>>, <<1>>}, p \in {Null, "monthly"} :
             GetTransactionsOf(e, f, t, s, l, p)
       \/ \E e \in Emails, p \in Periods : GetSummary(e, p)
       \/ \E e \in Emails, p \in Periods : GetDashboard(e, p)

SpecListing == InitListing /\ [][NextListing]_vars

-----------------------------------------------------------------------------
(* Requests handled at the same time.  A handler runs up to its next await;
   each awaited store operation (save, findById, findByIdAndUpdate,
   findByIdAndDelete, findOneAndUpdate with $inc) is one atomic step of the
   store, and the steps of two requests interleave freely. *)

Collection(type) == IF type = "income" THEN incomes ELSE expenses

\* The signed amount an entry of the type adds to its account.
Signed(type, amount) == IF type = "income" THEN amount ELSE -amount

\* The request of client c has answered.
Answer(c, status, result) ==
    [requests EXCEPT ![c].pc = "done", ![c].status = status, ![c].result = result]

\* router.post("/add") and router.post("/minus") up to the end of
\* await newIncome.save() / await newExpense.save()
InsertSave(c, type, email, amount, account) ==
    /\ requests[c].pc = "idle"
    /\ LET request == [Idle EXCEPT !.op = "post", !.type = type, !.email = email,
                                   !.amount = amount, !.account = account]
           entry == NewEntry(nextId, email, amount, StoredAccount(account), FALSE,
                             InsertAdjust(balance, email, account, amount, FALSE) # balance)
       IN IF amount = 0
          THEN /\ requests' = [requests EXCEPT
                                  ![c] = [request EXCEPT !.pc = "done", !.status = 400]]
               /\ last' = Response("post", 400, 0, Null, Null, 0)
               /\ UNCHANGED <<incomes, expenses, nextId>>
          ELSE IF ~AmountValid(amount)
          THEN /\ requests' = [requests EXCEPT
                                  ![c] = [request EXCEPT !.pc = "done", !.status = 500]]
               /\ last' = Response("post", 500, 0, Null, Null, 0)
               /\ UNCHANGED <<incomes, expenses, nextId>>
          ELSE /\ incomes' = IF type = "income" THEN incomes \cup {entry} ELSE incomes
               /\ expenses' = IF type = "expense" THEN expenses \cup {entry} ELSE expenses
               /\ nextId' = nextId + 1
               /\ IF account = Null
                  THEN /\ requests' = [requests EXCEPT
                              ![c] = [request EXCEPT !.pc = "done", !.id = nextId,
                                                     !.status = 201, !.result = <<entry>>]]
                       /\ last' = Response("post", 201, nextId, Null, Null, 0)
                  ELSE /\ requests' = [requests EXCEPT
                              ![c] = [request EXCEPT !.pc = "inc", !.id = nextId,
                                                     !.doc = <<entry>>]]
                       /\ last' = Response("save", 0, nextId, Null, Null, 0)
    /\ UNCHANGED <<now, balance, authVars, feedVars, readVars>>

\* await Account.findOneAndUpdate({email, accountName: account}, {$inc: ...})
\* of an insert, then res.status(201)
InsertInc(c) ==
    LET r == requests[c]
    IN /\ r.pc = "inc"
       /\ balance' = InsertAdjust(balance, r.email, r.account,
                                  Signed(r.type, r.amount), FALSE)
       /\ requests' = Answer(c, 201, r.doc)
       /\ last' = Response("post", 201, r.id, Null, Null, 0)
       /\ UNCHANGED <<now, incomes, expenses, nextId, authVars, feedVars, readVars>>

\* router.put("/:id") up to the end of await findById(id) and the checks on
\* what it found
UpdateFind(c, type, id, body) ==
    /\ requests[c].pc = "idle"
    /\ LET request == [Idle EXCEPT !.op = "put", !.type = type, !.id = id,
                                   !.body = <<body>>]
           guard == GuardStatus(Collection(type), id)
       IN IF guard # 200
          THEN /\ requests' = [requests EXCEPT
                                  ![c] = [request EXCEPT !.pc = "done", !.status = guard]]
               /\ last' = Response("put", guard, id, Null, Null, 0)
          ELSE /\ requests' = [requests EXCEPT
                                  ![c] = [request EXCEPT !.pc = "write",
                                             !.doc = <<FindById(Collection(type), id)>>]]
               /\ last' = Response("findById", 0, id, Null, Null, 0)
    /\ UNCHANGED <<now, ledgerVars, authVars, feedVars, readVars>>

\* await findByIdAndUpdate(id, updateData, {new: true, runValidators: true}),
\* which resolves to null when no document has the id, then
\* res.status(200).json({message, income: updatedIncome})
UpdateWrite(c) ==
    LET r == requests[c]
        coll == Collection(r.type)
        body == r.body[1]
    IN /\ r.pc = "write"
       /\ IF ~UpdateValid(body)
          THEN /\ requests' = Answer(c, 500, <<>>)
               /\ last' = Response("put", 500, r.id, Null, Null, 0)
               /\ UNCHANGED <<incomes, expenses>>
          ELSE IF ~Found(coll, r.id)
          THEN /\ requests' = Answer(c, 200, <<>>)
               /\ last' = Response("put", 200, r.id, Null, Null, 0)
               /\ UNCHANGED <<incomes, expenses>>
          ELSE LET stored == FindById(coll, r.id)
                   updated == ApplyUpdate(stored, body)
                   written == (coll \ {stored}) \cup {updated}
               IN /\ incomes' = IF r.type = "income" THEN written ELSE incomes
                  /\ expenses' = IF r.type = "expense" THEN written ELSE expenses
                  /\ requests' = Answer(c, 200, <<updated>>)
                  /\ last' = Response("put", 200, r.id, Null, Null, 0)
       /\ UNCHANGED <<now, balance, nextId, authVars, feedVars, readVars>>

\* router.delete("/:id") up to the end of await findById(id) and the checks
\* on what it found
DeleteFind(c, type, id) ==
    /\ requests[c].pc = "idle"
    /\ LET request == [Idle EXCEPT !.op = "delete", !.type = type, !.id = id]
           guard == GuardStatus(Collection(type), id)
       IN IF guard # 200
          THEN /\ requests' = [requests EXCEPT
                                  ![c] = [request EXCEPT !.pc = "done", !.status = guard]]
               /\ last' = Response("delete", guard, id, Null, Null, 0)
          ELSE /\ requests' = [requests EXCEPT
                                  ![c] = [request EXCEPT !.pc = "remove",
                                             !.doc = <<FindById(Collection(type), id)>>]]
               /\ last' = Response("findById", 0, id, Null, Null, 0)
    /\ UNCHANGED <<now, ledgerVars, authVars, feedVars, readVars>>

\* await findByIdAndDelete(id): the result is not looked at
DeleteRemove(c) ==
    LET r == requests[c]
        remaining == {e \in Collection(r.type) : e.id # r.id}
    IN /\ r.pc = "remove"
       /\ incomes' = IF r.type = "income" THEN remaining ELSE incomes
       /\ expenses' = IF r.type = "expense" THEN remaining ELSE expenses
       /\ IF r.doc[1].account = Null
          THEN /\ requests' = Answer(c, 200, <<>>)
               /\ last' = Response("delete", 200, r.id, Null, Null, 0)
          ELSE /\ requests' = [requests EXCEPT ![c].pc = "revert"]
               /\ last' = Response("findByIdAndDelete", 0, r.id, Null, Null, 0)
       /\ UNCHANGED <<now, balance, nextId, authVars, feedVars, readVars>>

\* await Account.findOneAndUpdate({email, accountName}, {$inc: ...}) with the
\* fields of the document findById returned, then res.status(200)
DeleteRevert(c) ==
    LET r == requests[c]
        doc == r.doc[1]
    IN /\ r.pc = "revert"
       /\ balance' = DeleteAdjust(balance, doc, -Signed(r.type, doc.amount), FALSE)
       /\ requests' = Answer(c, 200, <<>>)
       /\ last' = Response("delete", 200, r.id, Null, Null, 0)
       /\ UNCHANGED <<now, incomes, expenses, nextId, authVars, feedVars, readVars>>

\* The store the concurrent requests start from: u1 has added an income of 2
\* to Cash and an expense of 1 to Bank, just now.
RaceIncome == [id |-> 1, email |-> "u1", amount |-> 2, account |-> "Cash",
               createdAt |-> 0, isTransfer |-> FALSE, updated |-> FALSE,
               credited |-> TRUE]

RaceExpense == [id |-> 2, email |-> "u1", amount |-> 1, account |-> "Bank",
                createdAt |-> 0, isTransfer |-> FALSE, updated |-> FALSE,
                credited |-> TRUE]

RaceBalance ==
    [k \in ExistingAccounts |->
        IF k = <<"u1", "Cash">> THEN InitialBalance + RaceIncome.amount
        ELSE InitialBalance - RaceExpense.amount]

InitRace ==
    /\ now = 0
    /\ incomes = {RaceIncome}
    /\ expenses = {RaceExpense}
    /\ balance = RaceBalance
    /\ nextId = 3
    /\ last = NoRequest
    /\ resetCodes = <<>>
    /\ password = [u \in Users |-> Hash("p0")]
    /\ verified = {}
    /\ query = NoQuery
    /\ answer = NoAnswer
    /\ requests = [c \in Clients |-> Idle]
    /\ NoReports
    /\ incomeTransactions = <<>>
    /\ expenseTransactions = <<>>

EntryTypes == {"income", "expense"}

\* Bodies of the concurrent POST /add and POST /minus.
RaceBodies ==
    [email : {"u1"}, amount : ValidAmounts \cup InvalidAmounts,
     account : AccountNames \cup {Null}]

RaceIds == {RaceIncome.id, RaceExpense.id}

\* Each client sends one request; the steps of the two requests interleave.
NextRace ==
    \/ \E c \in Clients, type \in EntryTypes, b \in RaceBodies :
          InsertSave(c, type, b.email, b.amount, b.account)
    \/ \E c \in Clients : InsertInc(c)
    \/ \E c \in Clients, type \in EntryTypes, id \in RaceIds, b \in UpdateBodies :
          UpdateFind(c, type, id, b)
    \/ \E c \in Clients : UpdateWrite(c)
    \/ \E c \in Clients, type \in EntryTypes, id \in RaceIds : DeleteFind(c, type, id)
    \/ \E c \in Clients : DeleteRemove(c)
    \/ \E c \in Clients : DeleteRevert(c)

SpecRace == InitRace /\ [][NextRace]_vars

-----------------------------------------------------------------------------
(* The entries specification: inserts that name an existing account of the
   owner, updates and deletes, handled one at a time; no transfer. *)

EntryBodies == {b \in PostBodies : <<b.email, b.account>> \in ExistingAccounts}

NextEntries ==
    \/ \E b \in EntryBodies :
          PostIncomeAdd(b.email, b.amount, b.account, b.missing, FALSE)
    \/ \E id \in Ids, b \in UpdateBodies : PutIncome(id, b)
    \/ \E id \in Ids : DeleteIncome(id, FALSE)
    \/ \E b \in EntryBodies :
          PostExpenseMinus(b.email, b.amount, b.account, b.missing, FALSE)
    \/ \E id \in Ids, b \in UpdateBodies : PutExpense(id, b)
    \/ \E id \in Ids : DeleteExpense(id, FALSE)
    \/ \E d \in ClockSteps : Tick(d)

SpecEntries == Init /\ [][NextEntries]_vars

-----------------------------------------------------------------------------
(* The transfers specification: transfers between account names of which
   some name no account, and deletes of the expenses the transfers wrote,
   handled one at a time. *)

\* u1 has no account called Savings.
TransferNames == AccountNames \cup {"Savings"}

TransferRequests ==
    TransferBodies
    \cup [email : {"u1"}, fromAccount : TransferNames, toAccount : TransferNames,
          amount : ValidAmounts, missing : {FALSE}]

NextTransfers ==
    \/ \E b \in TransferRequests :
          PostExpenseTransfer(b.email, b.fromAccount, b.toAccount, b.amount, b.missing, 0)
    \/ \E id \in Ids : DeleteExpense(id, FALSE)
    \/ \E d \in ClockSteps : Tick(d)

SpecTransfers == Init /\ [][NextTransfers]_vars

-----------------------------------------------------------------------------
(* Properties of the ledger *)

GuardedIncomeOps == {"putIncome", "deleteIncome"}
GuardedExpenseOps == {"putExpense", "deleteExpense"}
GuardedOps == GuardedIncomeOps \cup GuardedExpenseOps

\* The answer the edit-window rule prescribes for a request on document id
\* of coll: 404 when absent, 403 when created more than 12 hours ago,
\* otherwise 200, or `rejected` when the request body is refused.
PrescribedStatus(coll, id, rejected) ==
    IF ~(\E e \in coll : e.id = id) THEN 404
    ELSE IF \E e \in coll : e.id = id /\ now - e.createdAt > EditWindowMinutes THEN 403
    ELSE rejected

ErrorLeavesStoreAlone ==
    (last'.op \in GuardedOps /\ last'.status # 200)
        => UNCHANGED <<incomes, expenses, balance>>

\* C1 as stated: PUT and DELETE answer 404 for an absent id, 403 for a
\* document older than 12 hours and 200 in every other case, and a 403 or
\* 404 answer changes no document and no balance.
C1_EditGuardAsStated ==
    [][ /\ \A id \in Ids, b \in UpdateBodies :
              /\ PutIncome(id, b) => last'.status = PrescribedStatus(incomes, id, 200)
              /\ PutExpense(id, b) => last'.status = PrescribedStatus(expenses, id, 200)
        /\ \A id \in Ids :
              /\ DeleteIncome(id, FALSE) => last'.status = PrescribedStatus(incomes, id, 200)
              /\ DeleteExpense(id, FALSE) => last'.status = PrescribedStatus(expenses, id, 200)
        /\ ErrorLeavesStoreAlone ]_vars

\* C1 amended: as above, except that a PUT on a present document inside its
\* window whose body fails schema validation (a negative amount) is answered
\* 500; every answer other than 200 changes no document and no balance.
C1_EditGuard ==
    [][ /\ \A id \in Ids, b \in UpdateBodies :
              /\ PutIncome(id, b) =>
                    last'.status = PrescribedStatus(incomes, id,
                                        IF b.hasAmount /\ b.amount < 0 THEN 500 ELSE 200)
              /\ PutExpense(id, b) =>
                    last'.status = PrescribedStatus(expenses, id,
                                        IF b.hasAmount /\ b.amount < 0 THEN 500 ELSE 200)
        /\ \A id \in Ids :
              /\ DeleteIncome(id, FALSE) => last'.status = PrescribedStatus(incomes, id, 200)
              /\ DeleteExpense(id, FALSE) => last'.status = PrescribedStatus(expenses, id, 200)
        /\ ErrorLeavesStoreAlone ]_vars

\* A document aged 12 h 01 min has just been refused.
C1_Witness ==
    /\ last.op \in GuardedIncomeOps
    /\ last.status = 403
    /\ \E e \in incomes : e.id = last.id /\ now - e.createdAt = EditWindowMinutes + 1

\* The document of coll with this id.
Doc(coll, id) == CHOOSE e \in coll : e.id = id

\* bal with delta added to the balance of account k, when that account exists.
Shifted(bal, k, delta) ==
    [a \in DOMAIN bal |-> IF a = k THEN bal[a] + delta ELSE bal[a]]

\* C2 as stated: a successful income (expense) insert raises (lowers) by
\* `amount` the balance of the account (owner, account stored on the new
\* document) when that account exists, whether the name was sent or
\* defaulted; when it does not exist no balance changes.
C2_InsertAdjustsStoredAccount ==
    [][ /\ (last'.op = "postIncome" /\ last'.status = 201) =>
              LET e == Doc(incomes', last'.id)
              IN balance' = Shifted(balance, <<e.email, e.account>>, e.amount)
        /\ (last'.op = "postExpense" /\ last'.status = 201) =>
              LET e == Doc(expenses', last'.id)
              IN balance' = Shifted(balance, <<e.email, e.account>>, -e.amount) ]_vars

\* C3 as stated: deleting a document that no PUT has rewritten undoes what
\* its insert did to the balances, so insert followed by delete leaves every
\* balance as it was (transfers aside).
C3_DeleteReversesInsert ==
    [][ /\ (last'.op = "deleteIncome" /\ last'.status = 200) =>
              LET e == Doc(incomes, last'.id)
              IN ~e.updated =>
                    balance' = Shifted(balance, <<e.email, e.account>>,
                                       IF e.credited THEN -e.amount ELSE 0)
        /\ (last'.op = "deleteExpense" /\ last'.status = 200) =>
              LET e == Doc(expenses, last'.id)
              IN (~e.updated /\ ~e.isTransfer) =>
                    balance' = Shifted(balance, <<e.email, e.account>>,
                                       IF e.credited THEN e.amount ELSE 0) ]_vars

\* C4: a transfer answered 201 stores exactly one new Expense, flagged
\* isTransfer, on the source account, and no Income; when the source X and
\* the destination Y are two existing accounts of the owner, X's balance
\* falls by the amount, Y's rises by it and no other balance moves.
C4_Transfer ==
    [][ (last'.op = "transfer" /\ last'.status = 201) =>
          /\ incomes' = incomes
          /\ \E e \in expenses' :
                /\ e \notin expenses
                /\ expenses' = expenses \cup {e}
                /\ e.id = last'.id
                /\ e.isTransfer
                /\ e.account = last'.account
                /\ LET x == <<e.email, last'.account>>
                       y == <<e.email, last'.toAccount>>
                   IN (x \in DOMAIN balance /\ y \in DOMAIN balance /\ x # y) =>
                         balance' = Shifted(Shifted(balance, x, -e.amount), y, e.amount) ]_vars

\* A transfer between two distinct existing accounts has just been answered.
C4_Witness ==
    /\ last.op = "transfer"
    /\ last.status = 201
    /\ last.account # last.toAccount
    /\ \E e \in expenses :
          /\ e.id = last.id
          /\ <<e.email, last.account>> \in DOMAIN balance
          /\ <<e.email, last.toAccount>> \in DOMAIN balance
          /\ balance[<<e.email, last.account>>] = InitialBalance - e.amount
          /\ balance[<<e.email, last.toAccount>>] = InitialBalance + e.amount

\* C5: when an account update throws during an insert, a delete or a
\* transfer, the answer is still the success status (201, 200, 201) and the
\* document written stays written (the document removed stays removed).
C5_AdjustFaultIsSwallowed ==
    [][ last'.fault # 0 =>
          /\ last'.op \in {"postIncome", "postExpense", "transfer", "deleteIncome", "deleteExpense"}
          /\ last'.op = "postIncome" =>
                /\ last'.status = 201
                /\ \E e \in incomes' : e.id = last'.id /\ incomes' = incomes \cup {e}
                /\ ~(\E e \in incomes : e.id = last'.id)
          /\ last'.op \in {"postExpense", "transfer"} =>
                /\ last'.status = 201
                /\ \E e \in expenses' : e.id = last'.id /\ expenses' = expenses \cup {e}
                /\ ~(\E e \in expenses : e.id = last'.id)
          /\ last'.op = "deleteIncome" =>
                /\ last'.status = 200
                /\ \E e \in incomes : e.id = last'.id /\ incomes' = incomes \ {e}
          /\ last'.op = "deleteExpense" =>
                /\ last'.status = 200
                /\ \E e \in expenses : e.id = last'.id /\ expenses' = expenses \ {e} ]_vars

\* The balance revert of an expense delete has just thrown: the expense is
\* gone, the answer is 200 and the balances are those of Init less the expense.
C5_Witness ==
    /\ last.op = "deleteExpense"
    /\ last.fault = 1
    /\ last.status = 200
    /\ expenses = {}
    /\ \E k \in DOMAIN balance : balance[k] < InitialBalance

\* C15: the createdAt of an entry is assigned at insertion and never changes
\* afterwards: no PUT, whatever its body carries, alters it, so the edit
\* window of an entry cannot be restarted or extended.
C15_CreatedAtImmutable ==
    [][ /\ \A e \in incomes : \A f \in incomes' : f.id = e.id => f.createdAt = e.createdAt
        /\ \A e \in expenses : \A f \in expenses' : f.id = e.id => f.createdAt = e.createdAt
        /\ \A id \in Ids, b \in UpdateBodies :
              (b.createdAt # <<>> /\ (PutIncome(id, b) \/ PutExpense(id, b))) =>
                  \A f \in incomes' \cup expenses' : f.createdAt <= now ]_vars

\* A PUT has rewritten an income late in its window and the income still
\* carries the instant of its insertion.
C15_Witness ==
    /\ last.op = "putIncome"
    /\ last.status = 200
    /\ \E e \in incomes :
          /\ e.id = last.id
          /\ e.updated
          /\ now - e.createdAt = EditWindowMinutes - 1

\* C16 as stated: POST /income/add and POST /expense/minus answer 400 if and
\* only if a required field is absent from the request; a request carrying
\* all of them with a non-negative amount, amount 0 included, is not rejected
\* as missing; a 400 answer stores no entry and changes no balance.
C16_MissingFieldIff400 ==
    [][ \A b \in PostBodies :
          (\/ PostIncomeAdd(b.email, b.amount, b.account, b.missing, FALSE)
           \/ PostExpenseMinus(b.email, b.amount, b.account, b.missing, FALSE)) =>
              /\ last'.status = 400 <=> b.missing
              /\ last'.status = 400 => UNCHANGED <<incomes, expenses, balance>> ]_vars

C18_BalanceNonNegative ==
    \A k \in DOMAIN balance : balance[k] >= 0

\* C21 as stated: the canEdit flag of the feed agrees with the guard of PUT
\* and DELETE for every stored entry at every instant, an age of exactly 12
\* hours included: canEdit is true exactly when an update or delete of the
\* entry at the same instant would not be answered 403, for incomes and for
\* expenses alike.
C21_CanEditAgreesWithGuard ==
    /\ \A e \in incomes :
          canEditTransaction(<<e.createdAt>>) <=> GuardStatus(incomes, e.id) # 403
    /\ \A e \in expenses :
          canEditTransaction(<<e.createdAt>>) <=> GuardStatus(expenses, e.id) # 403

\* The two clients have each had an insert into the same existing account
\* answered 201.
BothInserted(k) ==
    \A c \in Clients :
       /\ requests[c].op = "post"
       /\ requests[c].pc = "done"
       /\ requests[c].status = 201
       /\ <<requests[c].email, requests[c].account>> = k

C23_UpdateNeverSucceedsOnAbsent ==
    \A c \in Clients :
       (requests[c].op = "put" /\ requests[c].pc = "done" /\ requests[c].status = 200)
          => /\ requests[c].result # <<>>
             /\ requests[c].result[1].id = requests[c].id

\* The sum of the amounts of a set of entries.
RECURSIVE AmountsOf(_)
AmountsOf(entries) ==
    IF entries = {} THEN 0
    ELSE LET e == CHOOSE x \in entries : TRUE
         IN e.amount + AmountsOf(entries \ {e})

\* The entries of a collection that name the account k of their owner.
Naming(coll, k) == {e \in coll : e.email = k[1] /\ e.account = k[2]}

\* C24 as stated: after any sequence of inserts that name an existing
\* account, updates and deletes, with no transfer, the balance of every
\* account is its initial balance plus the amounts of the stored incomes
\* naming it minus the amounts of the stored expenses naming it.
C24_LedgerConsistency ==
    \A k \in DOMAIN balance :
       balance[k] = InitialBalance + AmountsOf(Naming(incomes, k))
                                   - AmountsOf(Naming(expenses, k))

\* The sum of the balances of the accounts in keys.
RECURSIVE BalancesOf(_, _)
BalancesOf(bal, keys) ==
    IF keys = {} THEN 0
    ELSE LET k == CHOOSE x \in keys : TRUE
         IN bal[k] + BalancesOf(bal, keys \ {k})

\* The existing accounts of an owner.
AccountsOf(email) == {k \in DOMAIN balance : k[1] = email}

\* C25 as stated: transfers conserve funds: a transfer between account names
\* of one owner, whether or not an account with the source name or the
\* destination name exists, leaves the sum of the balances of the owner's
\* existing accounts as it was, and so does every sequence of transfers.
C25_TransfersConserveFunds ==
    [][ (last'.op = "transfer" /\ last'.status = 201)
        => \A email \in Emails :
              BalancesOf(balance', AccountsOf(email))
                 = BalancesOf(balance, AccountsOf(email)) ]_vars

\* C26 as stated: a transfer followed by the deletion, inside the edit
\* window, of the Expense record the transfer created restores the balances
\* of the source and of the destination account: once every transfer has
\* been undone this way, every balance is what it was before the transfers.
C26_DeleteUndoesTransfer ==
    (last.op = "deleteExpense" /\ last.status = 200 /\ expenses = {})
       => \A k \in DOMAIN balance : balance[k] = InitialBalance

\* C27 as stated: the balance reversal of a deletion happens at most once
\* per entry: once two concurrent DELETE requests for the same income (or
\* expense) have both been answered, the balance of the entry's account is
\* lower (higher) than before them by exactly the entry's amount.
C27_RevertAtMostOnce ==
    \A type \in EntryTypes :
       LET entry == IF type = "income" THEN RaceIncome ELSE RaceExpense
           k == <<entry.email, entry.account>>
       IN (\A c \in Clients :
              /\ requests[c].op = "delete"
              /\ requests[c].type = type
              /\ requests[c].id = entry.id
              /\ requests[c].pc = "done")
          => balance[k] = RaceBalance[k] - Signed(type, entry.amount)

\* The PUT and DELETE requests of a collection, by the name in their answer.
EditsOf(type) ==
    IF type = "income" THEN {"putIncome", "deleteIncome"}
    ELSE {"putExpense", "deleteExpense"}

\* One step keeps the entries of a collection that are outside the edit
\* window refused: a 403 is answered only for a stored entry outside the
\* window; such an entry, while stored, stays outside the window; and a PUT
\* or DELETE on it is answered 403 or 404.
StaysRefused(type, coll, collNext) ==
    \A e \in coll :
       /\ (last'.op \in EditsOf(type) /\ last'.id = e.id /\ last'.status = 403)
             => EditWindowExpired(e)
       /\ EditWindowExpired(e)
             => /\ \A f \in collNext : f.id = e.id => EditWindowExpired(f)'
                /\ (last'.op \in EditsOf(type) /\ last'.id = e.id)
                      => last'.status \in {403, 404}

\* C30: editability is monotone: once a PUT or DELETE on an entry has been
\* answered 403 because its edit window expired, every later PUT or DELETE
\* on that entry is refused too (403, or 404 once it is absent), whatever
\* happens in between; an entry never becomes editable again.
C30_EditabilityMonotone ==
    [][ /\ StaysRefused("income", incomes, incomes')
        /\ StaysRefused("expense", expenses, expenses') ]_vars

\* A delete of an income has been answered 403 at the end of the clock: the
\* income was updated while it was editable and is outside the edit window
\* now.
C30_Witness ==
    /\ last.op = "deleteIncome"
    /\ last.status = 403
    /\ now = MaxClock
    /\ \E e \in incomes : e.id = last.id /\ e.updated /\ EditWindowExpired(e)

-----------------------------------------------------------------------------
(* Properties of the password reset *)

\* C6 as stated: /reset-password changes a stored password only when a reset
\* code issued for that email has been verified and is still unexpired.
C6_ResetRequiresVerifiedCode ==
    [][ \A u \in Users :
          password'[u] # password[u] =>
              /\ u \in verified
              /\ u \in DOMAIN resetCodes
              /\ resetCodes[u].expiresAt >= now ]_vars

-----------------------------------------------------------------------------
(* Properties of the transactions feed *)

Answered == last.op = "getTransactions"

\* The records of the two filtered sets, as the answer shows them.
MatchingIncome == Format(Fetch(incomeTransactions, query.type, "income"), "income")
MatchingExpense == Format(Fetch(expenseTransactions, query.type, "expense"), "expense")
Matching == MatchingIncome \o MatchingExpense
Range(seq) == {seq[i] : i \in DOMAIN seq}

RECURSIVE TotalOfFirst(_, _)
TotalOfFirst(records, n) ==
    IF n = 0 THEN 0 ELSE TotalOfFirst(records, n - 1) + records[n].amount

TotalOf(records) == TotalOfFirst(records, Len(records))

\* The length of the returned list under the limit of the query.
ReturnedLength ==
    IF query.limit = <<>> \/ query.limit[1] > Len(Matching)
    THEN Len(Matching) ELSE query.limit[1]

\* C7: in the answer of /transactions, totals.income is the sum of the amounts
\* of all incomes matching the filters, totals.expense the sum over all
\* matching expenses, totals.balance their difference; the totals are those
\* of the whole filtered set whatever the limit is.
C7_TotalsOverFilteredSet ==
    Answered =>
        /\ answer.totals.income = TotalOf(MatchingIncome)
        /\ answer.totals.expense = TotalOf(MatchingExpense)
        /\ answer.totals.balance = answer.totals.income - answer.totals.expense
        /\ \A l \in Limits :
              TransactionsResponse(incomeTransactions, expenseTransactions, query.type,
                                   query.sortBy, l, query.period).totals = answer.totals

\* A limit of 1 has cut an expense from the returned list and the totals
\* still count it.
C7_Witness ==
    /\ Answered
    /\ query.limit = <<1>>
    /\ Len(answer.transactions) = 1
    /\ answer.transactions[1].type = "income"
    /\ Len(MatchingExpense) = 1
    /\ answer.totals.expense = MatchingExpense[1].amount
    /\ answer.totals.expense > 0

\* Position of a record in the concatenation of incomes and expenses.
ConcatPosition(t) ==
    IF t.type = "income" THEN t.id ELSE Len(MatchingIncome) + t.id

\* a comes before b in the amount order, ties in concatenation order.
AmountBefore(a, b) ==
    \/ query.sortBy = "amount_desc" /\ a.amount > b.amount
    \/ query.sortBy = "amount_asc" /\ a.amount < b.amount
    \/ a.amount = b.amount /\ ConcatPosition(a) < ConcatPosition(b)

\* C8: with sortBy amount_desc (amount_asc) the merged feed is in
\* non-increasing (non-decreasing) order of amount, records of equal amount
\* keep their concatenation order, and with limit N the returned list is the
\* first N records of that sorted sequence.
C8_AmountSortThenLimit ==
    Answered /\ query.sortBy \in {"amount_asc", "amount_desc"} =>
        LET t == answer.transactions
        IN /\ Len(t) = ReturnedLength
           /\ Range(t) \subseteq Range(Matching)
           /\ \A i, j \in DOMAIN t : i < j => AmountBefore(t[i], t[j])
           /\ \A r \in Range(Matching) \ Range(t) : \A i \in DOMAIN t : AmountBefore(t[i], r)

\* A descending amount sort has moved the larger expense ahead of the income
\* and a limit of 1 has kept the expense alone.
C8_Witness ==
    /\ Answered
    /\ query.sortBy = "amount_desc"
    /\ query.limit = <<1>>
    /\ Len(Matching) = 2
    /\ Len(answer.transactions) = 1
    /\ answer.transactions[1].type = "expense"
    /\ Matching[1].type = "income"
    /\ Matching[1].amount < Matching[2].amount

\* The time a record's date and time stand for, in minutes.
Timestamp(t) == DayNumber(t.date) * 1440 + Minutes(t.time)

\* C9 as stated: with sortBy date_desc, absent or unrecognised the merged
\* feed is in non-increasing order of the timestamp formed from date and
\* time; with date_asc in non-decreasing order.
C9_DateSort ==
    Answered /\ query.sortBy \notin {"amount_asc", "amount_desc"} =>
        LET t == answer.transactions
        IN \A i, j \in DOMAIN t :
              i < j => IF query.sortBy = "date_asc"
                       THEN Timestamp(t[i]) <= Timestamp(t[j])
                       ELSE Timestamp(t[i]) >= Timestamp(t[j])

\* The records the bucketer was given.
BucketerInput == answer.transactions

\* C10: for every bucket of the period bucketer, income is the sum of the
\* amounts of its members of type income, expense the sum over its other
\* members, balance = income - expense, and every input record is a member
\* of exactly one bucket.
C10_Buckets ==
    Answered /\ query.period # Null =>
        LET buckets == answer.periodData
        IN /\ \A k \in DOMAIN buckets :
                 LET b == buckets[k]
                 IN /\ b.income = TotalOf(SelectSeq(b.transactions, LAMBDA t : t.type = "income"))
                    /\ b.expense = TotalOf(SelectSeq(b.transactions, LAMBDA t : t.type # "income"))
                    /\ b.balance = b.income - b.expense
           /\ \A r \in Range(BucketerInput) :
                 Cardinality({k \in DOMAIN buckets : r \in Range(buckets[k].transactions)}) = 1
           /\ \A k \in DOMAIN buckets :
                 LET m == buckets[k].transactions
                 IN /\ Range(m) \subseteq Range(BucketerInput)
                    /\ Cardinality(Range(m)) = Len(m)

\* A monthly grouping has put an income and an expense of different days
\* into one bucket.
C10_Witness ==
    /\ Answered
    /\ query.period = "monthly"
    /\ Len(answer.periodData) = 1
    /\ answer.periodData[1].income > 0
    /\ answer.periodData[1].expense > answer.periodData[1].income
    /\ Len(answer.periodData[1].transactions) = 2
    /\ answer.periodData[1].transactions[1].date # answer.periodData[1].transactions[2].date

\* The sums of the incomes and of the expenses of the first n buckets.
RECURSIVE BucketIncome(_, _)
BucketIncome(buckets, n) ==
    IF n = 0 THEN 0 ELSE buckets[n].income + BucketIncome(buckets, n - 1)

RECURSIVE BucketExpense(_, _)
BucketExpense(buckets, n) ==
    IF n = 0 THEN 0 ELSE buckets[n].expense + BucketExpense(buckets, n - 1)

\* C28 as stated: in an answer of /transactions to a request with period and
\* limit, periodData aggregates the filtered set that totals aggregates: the
\* bucket incomes add up to totals.income, the bucket expenses to
\* totals.expense, and counts.total is counts.income + counts.expense.
C28_PeriodDataMatchesTotals ==
    (Answered /\ query.period # Null /\ query.limit # <<>>)
       => /\ BucketIncome(answer.periodData, Len(answer.periodData)) = answer.totals.income
          /\ BucketExpense(answer.periodData, Len(answer.periodData)) = answer.totals.expense
          /\ answer.counts.total = answer.counts.income + answer.counts.expense

-----------------------------------------------------------------------------
(* Properties of the reports *)

\* The documents of a collection that the owner dated in the current year
\* (period yearly) or the current month of the current year (other periods).
InCurrentPeriod(store, email, period) ==
    {i \in DOMAIN store :
        /\ store[i].email = email
        /\ store[i].moment.date.y = today.y
        /\ period # "yearly" => store[i].moment.date.m = today.m}

RECURSIVE Members(_)
Members(buckets) ==
    IF buckets = <<>> THEN 0
    ELSE Len(Head(buckets).transactions) + Members(Tail(buckets))

\* C11 as stated: the window of period yearly (monthly) includes its last
\* day: every entry of the owner dated at any time of day from the first
\* through the last day of the current year (month) is selected by the
\* period-ranged queries.
C11_WindowIncludesLastDay ==
    last.op = "getSummary" /\ DefaultPeriod(query.period) \in {"monthly", "yearly"} =>
        /\ Members(answer.incomeByPeriod)
              = Cardinality(InCurrentPeriod(incomeStore, query.email, DefaultPeriod(query.period)))
        /\ Members(answer.expenseByPeriod)
              = Cardinality(InCurrentPeriod(expenseStore, query.email, DefaultPeriod(query.period)))

\* The entries of the owner in both collections, as the dashboard shows them.
OwnEntries ==
    Range(WithType(SelectSeq(incomeStore, LAMBDA doc : doc.email = query.email), "income"))
    \cup Range(WithType(SelectSeq(expenseStore, LAMBDA doc : doc.email = query.email), "expense"))

\* C12 as stated: recentTransactions is the 10 most recent of the owner's
\* transactions over incomes and expenses together, all of them when the
\* owner has fewer than 10, whatever the split between the two kinds.
C12_RecentTenOverall ==
    last.op = "getDashboard" =>
        LET recent == answer.recentTransactions
            wanted == IF Cardinality(OwnEntries) < RecentLimit
                      THEN Cardinality(OwnEntries) ELSE RecentLimit
        IN /\ Len(recent) = wanted
           /\ Range(recent) \subseteq OwnEntries
           /\ \A r \in Range(recent) : \A o \in OwnEntries \ Range(recent) :
                 Timestamp(r) >= Timestamp(o)

\* The owner's entries of a store that satisfy every supplied filter.
Selected(store) ==
    {store[i] : i \in {j \in DOMAIN store :
        /\ store[j].email = query.email
        /\ \A name \in {"division", "category", "account"} :
              query.filters[name] # Null => store[j][name] = query.filters[name]
        /\ (query.filters.startDate # <<>> /\ query.filters.endDate # <<>>) =>
              /\ Instant(query.filters.startDate[1]) <= Instant(store[j].moment.date)
              /\ Instant(store[j].moment.date) <= Instant(query.filters.endDate[1])}}

\* C13: GET /income/{owner}, GET /expense/{owner} and GET /transactions/{owner}
\* select exactly the owner's entries that satisfy every supplied filter
\* among date range (both ends inclusive), division, category and account,
\* combined with AND; a filter that is not supplied constrains nothing.
C13_FiltersSelectExactly ==
    /\ last.op = "getIncome" /\ ~answer.grouped =>
          /\ Range(answer.data) = Selected(incomeStore)
          /\ Len(answer.data) = Cardinality(Selected(incomeStore))
    /\ last.op = "getExpense" /\ ~answer.grouped =>
          /\ Range(answer.data) = Selected(expenseStore)
          /\ Len(answer.data) = Cardinality(Selected(expenseStore))
    /\ last.op = "getTransactionsOf" /\ query.type = Null =>
          /\ Range(incomeTransactions) = Selected(incomeStore)
          /\ Range(expenseTransactions) = Selected(expenseStore)
          /\ answer.counts.income = Cardinality(Selected(incomeStore))
          /\ answer.counts.expense = Cardinality(Selected(expenseStore))

\* A listing asked with a date range and an account has kept two entries of
\* the owner, one dated at the end of the range, and left out another entry
\* of the owner.
C13_Witness ==
    /\ last.op = "getIncome"
    /\ ~answer.grouped
    /\ query.filters.startDate # <<>>
    /\ query.filters.endDate # <<>>
    /\ query.filters.account = "Cash"
    /\ Len(answer.data) = 2
    /\ \E i \in DOMAIN answer.data : answer.data[i].moment.date = query.filters.endDate[1]
    /\ \E i \in DOMAIN incomeStore :
          /\ incomeStore[i].email = query.email
          /\ incomeStore[i].account = "Bank"

\* A store without the entries of the owners other than the one asked for.
OwnedBy(store, email) == SelectSeq(store, LAMBDA doc : doc.email = email)

\* C14: reads are partitioned by owner: the answer of every listing, total,
\* summary, transactions and dashboard request made for an owner is the
\* answer the same request gets from the store holding that owner's entries
\* only, so two stores that agree on the owner's entries give the same
\* answer and the entries of other owners never influence it.
C14_ReadsPartitionedByOwner ==
    LET own == query.email
        inc == OwnedBy(incomeStore, query.email)
        exp == OwnedBy(expenseStore, query.email)
    IN /\ last.op = "getIncome" =>
             answer = ListingResponse(inc, own, query.filters, query.period)
       /\ last.op = "getExpense" =>
             answer = ListingResponse(exp, own, query.filters, query.period)
       /\ last.op = "getIncomeTotal" =>
             answer = TotalResponse(inc, own, query.filters)
       /\ last.op = "getTransactionsOf" =>
             /\ answer = TransactionsResponse(Find(inc, own, query.filters),
                                              Find(exp, own, query.filters),
                                              query.type, query.sortBy, query.limit,
                                              query.period)
             /\ \A i \in DOMAIN answer.transactions :
                   \E doc \in Range(inc) \cup Range(exp) :
                       /\ doc.amount = answer.transactions[i].amount
                       /\ doc.moment.date = answer.transactions[i].date
       /\ last.op = "getSummary" =>
             answer = SummaryResponse(inc, exp, own, DefaultPeriod(query.period))
       /\ last.op = "getDashboard" =>
             /\ answer = DashboardResponse(inc, exp, own, DefaultPeriod(query.period))
             /\ \A i \in DOMAIN answer.recentTransactions :
                   answer.recentTransactions[i].email = own
       /\ last.op \in {"getIncome", "getExpense"} /\ ~answer.grouped =>
             \A i \in DOMAIN answer.data : answer.data[i].email = own

\* A listing for one owner has been answered with that owner's entries
\* while the store also holds an entry of another owner that meets the
\* filters of the request.
C14_Witness ==
    /\ last.op = "getIncome"
    /\ ~answer.grouped
    /\ Len(answer.data) > 0
    /\ query.filters.startDate = <<>>
    /\ query.filters.division = Null
    /\ query.filters.category = Null
    /\ query.filters.account = "Bank"
    /\ \E i \in DOMAIN incomeStore :
          /\ incomeStore[i].email # query.email
          /\ incomeStore[i].account = "Bank"

\* The number of periods a trend request asks for.
TrendLength ==
    CASE DefaultPeriod(query.period) = "monthly" -> RequestedMonths(query.months)
      [] DefaultPeriod(query.period) = "weekly" -> WeeklyTrendWeeks
      [] DefaultPeriod(query.period) = "yearly" -> YearlyTrendYears
      [] OTHER -> DefaultTrendMonths

\* The dates of the owner's entries.
OwnDates ==
    {doc.moment.date : doc \in {e \in Range(incomeStore) \cup Range(expenseStore) :
                                     e.email = query.email}}

\* A calendar day as the instant of its start.
StartOfDay(day) == [y |-> day.y, m |-> day.m, d |-> day.d, min |-> 0]

ZeroFilled(entry) == entry.income = 0 /\ entry.expense = 0 /\ entry.balance = 0

AscendingLabels(buckets) ==
    \A i, j \in DOMAIN buckets : i < j => LabelBefore(buckets[i].period, buckets[j].period)

\* C20 as stated: every period bucketer emits its buckets in ascending order
\* of period label: the periodData of GET /transactions and equally the
\* buckets of GET /income/{owner}?period=... and GET /expense/{owner}?period=...
C20_BucketsAscending ==
    /\ last.op = "getTransactionsOf" /\ query.period # Null =>
          AscendingLabels(answer.periodData)
    /\ last.op \in {"getIncome", "getExpense"} /\ query.period # Null =>
          AscendingLabels(answer.data)

\* The window of the weekly trend that starts i weeks before the current
\* instant.
WeeklyWindow(i) ==
    LET weekStart == DaysBefore(today, i * 7)
    IN [start |-> weekStart, end |-> DaysAfter(weekStart, 6)]

\* The entries of the owner dated from the start of the oldest weekly window
\* to the current instant.
TrailingEntries ==
    {e \in Range(incomeStore) \cup Range(expenseStore) :
        /\ e.email = query.email
        /\ InRange(e, [start |-> WeeklyWindow(WeeklyTrendWeeks - 1).start, end |-> today])}

\* C29 as stated: the windows of the weekly trend partition the trailing
\* span: every entry of the owner dated between the start of the oldest of
\* the 8 windows and the current instant lies in exactly one window, so the
\* bucket incomes and expenses add up to the owner's totals over the span.
C29_WeeklyWindowsPartition ==
    (last.op = "getPeriodTrend" /\ DefaultPeriod(query.period) = "weekly")
       => LET span == [start |-> WeeklyWindow(WeeklyTrendWeeks - 1).start, end |-> today]
          IN /\ \A e \in TrailingEntries :
                   Cardinality({i \in 0..(WeeklyTrendWeeks - 1) :
                                   InRange(e, WeeklyWindow(i))}) = 1
             /\ BucketIncome(answer.data, Len(answer.data))
                   = RangeTotal(incomeStore, query.email, span)
             /\ BucketExpense(answer.data, Len(answer.data))
                   = RangeTotal(expenseStore, query.email, span)

====
